---- MODULE Spec2Model ----
(***************************************************************************)
(* valutatrade_hub: the rate cache (parser_service/storage.py), the        *)
(* refresh coordinator (parser_service/updater.py, scheduler.py), the JSON *)
(* database (infra/database.py) and the conversion engine                  *)
(* (core/usecases.py), as a state machine over the files of data/.         *)
(*                                                                         *)
(* Time is in whole seconds; an ISO-8601 timestamp is modelled by the      *)
(* second it denotes.  A rate is an exact fraction <<n, d>> in lowest      *)
(* terms (floating-point rounding is not modelled).                        *)
(***************************************************************************)
EXTENDS Integers, Sequences, FiniteSets, TLC

VARIABLES
    now,            \* the wall clock, datetime.now()
    ticks,          \* number of clock advances so far (bounds the clock)
    fs,             \* the files of data/: path -> [exists, complete, data]
    rates_writer,   \* ghost: the component that last created or replaced rates.json
    rd_seen,        \* ghost: the states rates.json went through during the reader's call
    ncycles,        \* ghost: number of run_update calls started so far
    pc,             \* per thread: its position in run_update
    cycle,          \* ghost, per thread: the number of its current run_update call
    all_rates,      \* per thread: run_update's merged rate map
    buf,            \* per thread: the data _atomic_write is writing
    target,         \* per thread: the filepath _atomic_write is writing to
    cache_result,   \* per thread: what save_current_rates returned
    history_result, \* per thread: what save_to_history returned
    statistics,     \* per thread: run_update's statistics
    clients,        \* RatesUpdater.clients: the names of the sources, in list order
    EXCHANGERATE_API_KEY,   \* config.EXCHANGERATE_API_KEY
    rd_pc,          \* the reader's position in _load_json
    rd_result,      \* what the reader's load_current_rates returned
    pm_cache,       \* PortfolioManager._exchange_rates_cache
    pm_cache_ts,    \* PortfolioManager._cache_timestamp
    ger,            \* the last get_exchange_rate call: its arguments and outcome
    gr,             \* ghost: what RatesStorage.get_rate returned, per (from, to), on
                    \* the rates.json of now
    wallets,        \* the stored portfolio of the logged-in user: code -> balance
    trade,          \* the last buy_currency, sell_currency or show_portfolio call:
                    \* its arguments and outcome
    call,           \* the last call of a RatesStorage method from outside the
                    \* updater: its arguments and outcome
    req,            \* the _make_request call in progress: the attempts made, the
                    \* time slept, and its outcome
    sched,          \* the RatesScheduler object, the jobs of the schedule module,
                    \* the threads start() made and the stop() call in progress
    db,             \* DatabaseManager: users.json and portfolios.json, and the
                    \* read-modify-write calls in progress on them
    retry           \* the call in progress of a function wrapped by retry_on_failure

vars == <<now, ticks, fs, rates_writer, rd_seen, ncycles, pc, cycle,
          all_rates, buf, target, cache_result, history_result, statistics, clients,
          EXCHANGERATE_API_KEY, rd_pc, rd_result, pm_cache, pm_cache_ts, ger, gr, wallets, trade,
          call, req, sched, db, retry>>

-----------------------------------------------------------------------------
(* Bounds of the model *)

MaxTicks == 2
MaxCycles == 2
MaxAnswers == 2     \* get_rate results kept side by side in gr
MaxBalance == 1     \* the largest wallet balance
MaxLimit == 2       \* the largest limit passed to load_history
MaxLoops == 2       \* the threads that start() creates
MaxUsers == 3       \* the users that users.json holds
MaxRetries == 3     \* the largest max_retries given to retry_on_failure

(* Program constants *)

CACHE_TTL_SECONDS == 300
SCHEDULER_INTERVAL_MINUTES == 15
REQUEST_RETRIES == 3
RETRY_DELAY == 2
DefaultRetryAfter == 60
rates_ttl_seconds == 300

-----------------------------------------------------------------------------
(* Exact fractions *)

RECURSIVE Gcd(_, _)
Gcd(a, b) == IF b = 0 THEN a ELSE Gcd(b, a % b)

Abs(n) == IF n < 0 THEN 0 - n ELSE n

\* n / d in lowest terms, d # 0
Rat(n, d) ==
    LET g == Gcd(Abs(n), Abs(d))
        s == IF d < 0 THEN 0 - 1 ELSE 1
    IN  <<(s * n) \div g, (s * d) \div g>>

\* a / b for fractions in lowest terms, b # 0; cross-cancelled before multiplying
RatDiv(a, b) ==
    LET g1 == Gcd(Abs(a[1]), Abs(b[1]))
        g2 == Gcd(Abs(b[2]), Abs(a[2]))
    IN  Rat((a[1] \div g1) * (b[2] \div g2), (a[2] \div g2) * (b[1] \div g1))

One == <<1, 1>>

-----------------------------------------------------------------------------
(* Currencies and pair keys *)

\* CurrencyRegistry._currencies
RegistryCodes == {"USD", "EUR", "GBP", "RUB", "JPY", "CNY", "BTC", "ETH", "LTC", "DOGE"}

BASE_CURRENCY == "USD"

\* f"{from_currency}_{to_currency}"
PairKey(from, to) == from \o "_" \o to

\* pair_key.split("_", 1) for the keys "{FROM}_{TO}" over the registry codes
SplitPair(pair_key) ==
    CHOOSE p \in RegistryCodes \X RegistryCodes : PairKey(p[1], p[2]) = pair_key

NoTime == 0 - 1      \* None where a timestamp is expected
BadTime == 0 - 2     \* a timestamp field that datetime.fromisoformat rejects
NoLimit == 0 - 1     \* None where a limit is expected

-----------------------------------------------------------------------------
(* JSON values and files.  A JSON object is a record of the fields the     *)
(* program reads, with the set "fields" of those that are present; a JSON  *)
(* list is the sequence "list".  "cycle" is a ghost tag: the run_update    *)
(* call the value was built in (0: none).                                  *)

NoPairs == << >>

JsonObject(fields, last_refresh, pairs, rates, c) ==
    [kind |-> "object", fields |-> fields, last_refresh |-> last_refresh,
     pairs |-> pairs, rates |-> rates, list |-> << >>, cycle |-> c]

JsonList(list) ==
    [kind |-> "list", fields |-> {}, last_refresh |-> NoTime,
     pairs |-> NoPairs, rates |-> NoPairs, list |-> list, cycle |-> 0]

\* {}
EmptyObject == JsonObject({}, NoTime, NoPairs, NoPairs, 0)

\* load_current_rates' default: {"pairs": {}, "last_refresh": None}
EmptySnapshot == JsonObject({"pairs", "last_refresh"}, NoTime, NoPairs, NoPairs, 0)

\* the decimal digits of a natural number
RECURSIVE IntDigits(_)
IntDigits(n) == IF n < 10 THEN <<n>> ELSE Append(IntDigits(n \div 10), n % 10)

\* the decimal digits of num / d after the point, 0 <= num < d
RECURSIVE FracDigits(_, _)
FracDigits(num, d) ==
    IF num = 0 THEN << >>
    ELSE <<(num * 10) \div d>> \o FracDigits((num * 10) % d, d)

\* a number written with two places after the point, the rest cut off
FloatReprTwoPlaces(rate) ==
    [whole |-> IntDigits(rate[1] \div rate[2]),
     frac |-> <<((rate[1] % rate[2]) * 10) \div rate[2],
                ((((rate[1] % rate[2]) * 10) % rate[2]) * 10) \div rate[2]>>]

\* the text json.dump writes for a float: repr(rate), the digits before and
\* after the point
FloatRepr(rate) ==
    [whole |-> IntDigits(rate[1] \div rate[2]),
     frac |-> IF rate[1] % rate[2] = 0 THEN <<0>>
              ELSE FracDigits(rate[1] % rate[2], rate[2])]

\* the number a sequence of decimal digits writes
RECURSIVE DigitsValue(_)
DigitsValue(digits) ==
    IF digits = << >> THEN 0
    ELSE DigitsValue(SubSeq(digits, 1, Len(digits) - 1)) * 10 + digits[Len(digits)]

RECURSIVE Pow10(_)
Pow10(k) == IF k = 0 THEN 1 ELSE 10 * Pow10(k - 1)

\* the float json.load reads from the text of a number
ParseFloat(text) ==
    Rat(DigitsValue(text.whole) * Pow10(Len(text.frac)) + DigitsValue(text.frac),
        Pow10(Len(text.frac)))

\* json.dump(data): the text of data, every rate written by repr
json_dump(data) ==
    [data EXCEPT
        !.pairs = [k \in DOMAIN @ |-> [@[k] EXCEPT !.rate = FloatRepr(@)]],
        !.rates = [k \in DOMAIN @ |-> [@[k] EXCEPT !.rate = FloatRepr(@)]],
        !.list = [i \in DOMAIN @ |-> [@[i] EXCEPT !.rate = FloatRepr(@)]]]

\* json.load(f): the value of a whole JSON text
json_load(text) ==
    [text EXCEPT
        !.pairs = [k \in DOMAIN @ |-> [@[k] EXCEPT !.rate = ParseFloat(@)]],
        !.rates = [k \in DOMAIN @ |-> [@[k] EXCEPT !.rate = ParseFloat(@)]],
        !.list = [i \in DOMAIN @ |-> [@[i] EXCEPT !.rate = ParseFloat(@)]]]

\* the value of the text that json.dump(data) writes
JsonValue(data) == json_load(json_dump(data))

NoFile == [exists |-> FALSE, complete |-> FALSE, utf8 |-> TRUE, data |-> EmptyObject]

\* a file holding the whole JSON text of data
CompleteFile(data) == [exists |-> TRUE, complete |-> TRUE, utf8 |-> TRUE, data |-> data]

\* a file that exists but holds no or only part of a JSON text
PartialFile == [exists |-> TRUE, complete |-> FALSE, utf8 |-> TRUE, data |-> EmptyObject]

\* a file whose bytes are not UTF-8 text
BinaryFile == [exists |-> TRUE, complete |-> FALSE, utf8 |-> FALSE, data |-> EmptyObject]

RATES_FILE == "rates.json"
HISTORY_FILE == "exchange_rates.json"

Threads == {"bg", "fg"}

\* the name tempfile.mkstemp hands out: unique per call, in the file's directory
TempName(t) == "rates_" \o t \o ".tmp"

Paths == {RATES_FILE, HISTORY_FILE} \cup {TempName(t) : t \in Threads}

\* data.get("pairs", {}), data.get("rates", {}), data.get("last_refresh")
GetPairs(data) == IF "pairs" \in data.fields THEN data.pairs ELSE NoPairs
GetRates(data) == IF "rates" \in data.fields THEN data.rates ELSE NoPairs
GetLastRefresh(data) == IF "last_refresh" \in data.fields THEN data.last_refresh ELSE NoTime

-----------------------------------------------------------------------------
(* What the rate sources can report in the model *)

\* the order in which rates.items() iterates: the order in which the fetch
\* loop inserted the keys into all_rates
KeyOrder == <<"BTC_USD", "ETH_USD", "LTC_USD", "EUR_USD", "GBP_USD", "RUB_USD">>

\* MockApiClient._mock_rates
_mock_rates ==
    ("BTC_USD" :> Rat(5933721, 100)) @@ ("ETH_USD" :> Rat(3720, 1)) @@
    ("LTC_USD" :> Rat(7550, 100)) @@ ("EUR_USD" :> Rat(10786, 10000)) @@
    ("GBP_USD" :> Rat(1235, 1000)) @@ ("RUB_USD" :> Rat(1016, 100000))

\* EXCHANGERATE_API_KEY: the default, or a key from the environment
ApiKeys == {"demo_key_for_testing", "key"}

NoSource == ""       \* None where a source is expected

\* the --source values the model's command line passes to run_update
Sources == {NoSource, "all"}

\* create_api_client(source), by the names of the clients, as the list its
\* callers make of the result
create_api_client(source, key) ==
    (IF source \in {NoSource, "all", "coingecko"} THEN <<"CoinGecko">> ELSE << >>)
    \o (IF source \in {NoSource, "all", "exchangerate"}
        THEN IF key # "demo_key_for_testing" THEN <<"ExchangeRate-API">> ELSE <<"MockAPI">>
        ELSE << >>)
    \o (IF source = "mock" THEN <<"MockAPI">> ELSE << >>)

\* how a fetch_rates call ends: it raises, or it returns rates
Raised == [raised |-> TRUE, rates |-> << >>]
Returned(rates) == [raised |-> FALSE, rates |-> rates]

\* fetch_rates of the client called name: CoinGecko reports "{CRYPTO}_USD"
\* keys, ExchangeRate-API "{FIAT}_USD" keys, MockAPI its table; the two
\* clients that ask the network can raise, and CoinGecko can find no rate
fetch_rates(name) ==
    CASE name = "CoinGecko" ->
            {Raised, Returned(<< >>), Returned(("BTC_USD" :> <<60000, 1>>))}
      [] name = "ExchangeRate-API" ->
            {Raised, Returned(("EUR_USD" :> <<11, 10>>))}
      [] name = "MockAPI" ->
            {Returned(_mock_rates)}

\* one way the fetch_rates calls of a run_update over update_clients end
FetchResultsOf(update_clients, fetch(_)) ==
    { results \in [1..Len(update_clients) ->
                      UNION { fetch(update_clients[i]) : i \in 1..Len(update_clients) }] :
        \A i \in 1..Len(update_clients) : results[i] \in fetch(update_clients[i]) }

FetchResults(update_clients) == FetchResultsOf(update_clients, fetch_rates)

\* fetch_rates where the response carries any number: a rate is float() of
\* the number in the response, whatever its sign, so a source that reports
\* 0 for a coin or a currency yields the rate 0
fetch_rates_of_any_number(name) ==
    CASE name = "CoinGecko" ->
            fetch_rates(name) \cup {Returned(("BTC_USD" :> <<0, 1>>))}
      [] name = "ExchangeRate-API" ->
            fetch_rates(name) \cup {Returned(("EUR_USD" :> <<0, 1>>))}
      [] name = "MockAPI" ->
            fetch_rates(name)

KeysOf(rates) == SelectSeq(KeyOrder, LAMBDA k : k \in DOMAIN rates)

-----------------------------------------------------------------------------
(* RatesStorage (parser_service/storage.py) *)

\* open(filepath, 'w'): an existing file is cut to nothing
OpenWriting(files, filepath) ==
    IF files[filepath].exists THEN [files EXCEPT ![filepath] = PartialFile] ELSE files

\* the files after _load_json(filepath): filepath.exists(), open(filepath,
\* 'r') and json.load read, and write nothing
OpenReading(files, filepath) == files

\* _load_json: the parsed file, or default when the file is absent or does
\* not parse (JSONDecodeError, FileNotFoundError and IOError are caught)
_load_json(files, filepath, default) ==
    IF files[filepath].exists /\ files[filepath].complete
    THEN files[filepath].data
    ELSE default

\* _load_json raises: reading a file that is not UTF-8 text raises
\* UnicodeDecodeError, a ValueError that the except clause does not name
_load_json_raises(files, filepath) ==
    files[filepath].exists /\ ~files[filepath].utf8

\* load_current_rates
load_current_rates(files) == _load_json(files, RATES_FILE, EmptySnapshot)

\* load_current_rates raises what _load_json raises
load_current_rates_raises(files) == _load_json_raises(files, RATES_FILE)

\* _load_history
_load_history(files) == _load_json(files, HISTORY_FILE, JsonList(<< >>))

\* the data save_current_rates builds from rates at timestamp
SnapshotData(rates, timestamp, c) ==
    JsonObject({"last_refresh", "source", "pairs", "meta"}, timestamp,
               [k \in DOMAIN rates |->
                   [rate |-> rates[k], updated_at |-> timestamp,
                    from_currency |-> SplitPair(k)[1],
                    to_currency |-> SplitPair(k)[2]]],
               NoPairs, c)

\* the record save_to_history builds for pair_key
HistoryRecord(pair_key, rate, timestamp, c) ==
    [id |-> pair_key \o "_" \o ToString(timestamp),
     from_currency |-> SplitPair(pair_key)[1],
     to_currency |-> SplitPair(pair_key)[2],
     rate |-> rate, timestamp |-> timestamp, cycle |-> c]

\* one record for the whole call: that of the last entry of rates
HistoryRecordOfLast(rates, timestamp, c) ==
    IF KeysOf(rates) = << >> THEN << >>
    ELSE <<HistoryRecord(KeysOf(rates)[Len(KeysOf(rates))],
                         rates[KeysOf(rates)[Len(KeysOf(rates))]], timestamp, c)>>

\* saved_records: one record per entry of rates, in iteration order
HistoryRecords(rates, timestamp, c) ==
    [i \in 1..Len(KeysOf(rates)) |->
        HistoryRecord(KeysOf(rates)[i], rates[KeysOf(rates)[i]], timestamp, c)]

\* a cache whose age has reached the TTL counts as stale
is_cache_fresh_below_ttl(files, clock) ==
    LET last_refresh == GetLastRefresh(load_current_rates(files))
    IN  /\ last_refresh # NoTime
        /\ last_refresh # BadTime
        /\ clock - last_refresh < CACHE_TTL_SECONDS

\* is_cache_fresh, when it returns: False without a last_refresh and when
\* fromisoformat raises ValueError or TypeError
is_cache_fresh(files, clock) ==
    LET last_refresh == GetLastRefresh(load_current_rates(files))
    IN  /\ last_refresh # NoTime
        /\ last_refresh # BadTime
        /\ clock - last_refresh <= CACHE_TTL_SECONDS

\* is_cache_fresh raises: load_current_rates is called outside the try block,
\* and so is cache_data.get, which a JSON list does not have
is_cache_fresh_raises(files) ==
    \/ load_current_rates_raises(files)
    \/ load_current_rates(files).kind # "object"

\* currency.upper() over the codes of the model
Upper(currency) ==
    CASE currency = "btc" -> "BTC"
      [] currency = "usd" -> "USD"
      [] OTHER -> currency

\* history.sort(key=timestamp, reverse=True): newest first, records of one
\* timestamp in the order they had (the sort is stable)
RECURSIVE SortNewestFirst(_)
SortNewestFirst(history) ==
    IF history = << >> THEN << >>
    ELSE LET newest == CHOOSE i \in 1..Len(history) :
                          /\ \A j \in 1..Len(history) :
                                history[j].timestamp <= history[i].timestamp
                          /\ \A j \in 1..(i - 1) :
                                history[j].timestamp < history[i].timestamp
         IN  <<history[newest]>> \o
             SortNewestFirst(SubSeq(history, 1, newest - 1) \o
                             SubSeq(history, newest + 1, Len(history)))

\* history[:limit] for limit >= 0
Take(history, limit) ==
    SubSeq(history, 1, IF limit < Len(history) THEN limit ELSE Len(history))

\* "if limit": None and 0 are both false
LimitTruthy(limit) == limit # NoLimit /\ limit # 0

\* load_history(limit, currency)
load_history(files, limit, currency) ==
    LET history == _load_history(files).list
        filtered == IF currency # ""
                    THEN SelectSeq(history, LAMBDA record :
                            \/ record.from_currency = Upper(currency)
                            \/ record.to_currency = Upper(currency))
                    ELSE history
        sorted == SortNewestFirst(filtered)
    IN  IF LimitTruthy(limit) THEN Take(sorted, limit) ELSE sorted

\* what get_rate returns: a rate, or None
Some(rate) == [kind |-> "rate", rate |-> rate]
None == [kind |-> "None", rate |-> <<0, 1>>]

NoCurrency == ""     \* to_currency left out of the call

\* a * b for fractions in lowest terms, cross-cancelled before multiplying
RatMul(a, b) ==
    LET g1 == Gcd(Abs(a[1]), Abs(b[2]))
        g2 == Gcd(Abs(b[1]), Abs(a[2]))
    IN  Rat((a[1] \div g1) * (b[1] \div g2), (a[2] \div g2) * (b[2] \div g1))

\* get_rate past the identity: the direct pair, then the reverse pair
PairLookupReverseFirst(pairs, pair_key, reverse_key) ==
    IF reverse_key \in DOMAIN pairs
    THEN IF pairs[reverse_key].rate[1] # 0
         THEN Some(RatDiv(One, pairs[reverse_key].rate))
         ELSE None
    ELSE IF pair_key \in DOMAIN pairs THEN Some(pairs[pair_key].rate)
    ELSE None
PairLookup(pairs, pair_key, reverse_key) ==
    IF pair_key \in DOMAIN pairs THEN Some(pairs[pair_key].rate)
    ELSE IF reverse_key \in DOMAIN pairs
         THEN IF pairs[reverse_key].rate[1] # 0
              THEN Some(RatDiv(One, pairs[reverse_key].rate))
              ELSE None
    ELSE None

\* to_currency or config.BASE_CURRENCY
ToCurrency(to) == IF to = NoCurrency THEN BASE_CURRENCY ELSE to

\* RatesStorage.get_rate
get_rate(files, from, to) ==
    IF from = ToCurrency(to) THEN Some(One)
    ELSE PairLookup(GetPairs(load_current_rates(files)),
                    PairKey(from, ToCurrency(to)), PairKey(ToCurrency(to), from))

\* _atomic_write, the file the data is written to: the temporary file that
\* tempfile.mkstemp created beside filepath
TempPathInPlace(t, filepath) == filepath
TempPath(t, filepath) == TempName(t)

\* _atomic_write: tempfile.mkstemp creates the (empty) temporary file
Mkstemp(files, t, filepath) ==
    [files EXCEPT ![TempPath(t, filepath)] = PartialFile]

\* _atomic_write: json.dump wrote the whole of data to the temporary file
Dump(files, t, filepath, data) ==
    [files EXCEPT ![TempPath(t, filepath)] = CompleteFile(JsonValue(data))]

\* the temporary file's pairs are added to those of the file it replaces
ReplaceKeepingPairs(files, t, filepath) ==
    [files EXCEPT
        ![filepath] =
            IF files[filepath].exists /\ files[filepath].complete
            THEN [files[TempPath(t, filepath)] EXCEPT
                     !.data.pairs = @ @@ files[filepath].data.pairs]
            ELSE files[TempPath(t, filepath)],
        ![TempPath(t, filepath)] = NoFile]

\* _atomic_write: Path(temp_path).replace(filepath)
Replace(files, t, filepath) ==
    IF TempPath(t, filepath) = filepath
    THEN files
    ELSE [files EXCEPT ![filepath] = files[TempPath(t, filepath)],
                       ![TempPath(t, filepath)] = NoFile]

\* every file of the directory is removed
UnlinkAll(files, filepath) == [p \in DOMAIN files |-> NoFile]

\* filepath.unlink()
Unlink(files, filepath) == [files EXCEPT ![filepath] = NoFile]

\* _atomic_write's handler: Path(temp_path).unlink()
UnlinkTemp(files, t, filepath) ==
    [files EXCEPT ![TempPath(t, filepath)] = NoFile]

-----------------------------------------------------------------------------
(* RatesUpdater.run_update (parser_service/updater.py): the fetch loop *)

\* statistics as run_update starts with it; sources maps a client's name to
\* its entry and errors lists the names of the clients that raised.  Two
\* ghosts ride along: update_clients, the list the call loops over, and
\* queried, the names of the clients in the order fetch_rates was called
NoStatistics ==
    [sources |-> << >>, errors |-> << >>, total_rates |-> 0, success |-> FALSE,
     update_clients |-> << >>, queried |-> << >>]

\* update_clients: self.clients, or with a source the clients made for it
UpdateClients(source) ==
    IF source # NoSource THEN create_api_client(source, EXCHANGERATE_API_KEY) ELSE clients

\* the source argument of the run_update calls of thread t: the scheduler
\* and force_update pass none, the update-rates command passes --source
SourcesOf(t) == IF t = "fg" THEN Sources ELSE {NoSource}

\* an update that leaves the keys all_rates already has alone
UpdateKeepsFirst(merged, rates) == merged @@ rates

\* all_rates.update(rates), all_rates being merged
Update(merged, rates) == rates @@ merged

\* list(rates.keys())[:5]
FirstFive(keys) == SubSeq(keys, 1, IF Len(keys) < 5 THEN Len(keys) ELSE 5)

\* statistics["sources"][client.name] = ...; fetched is a ghost, the rates
\* that fetch_rates returned
SourceEntry(name, result) ==
    IF result.raised
    THEN [status |-> "error", rates_count |-> 0, rates |-> << >>, fetched |-> << >>]
    ELSE [status |-> "success", rates_count |-> Cardinality(DOMAIN result.rates),
          rates |-> FirstFive(KeysOf(result.rates)), fetched |-> result.rates]

\* a loop whose first raising client ends the querying
QueryClientUntilError(acc, name, result) ==
    IF acc.statistics.errors # << >>
    THEN acc
    ELSE [all_rates |-> IF result.raised THEN acc.all_rates
                        ELSE Update(acc.all_rates, result.rates),
          statistics |-> [acc.statistics EXCEPT
                             !.queried = Append(@, name),
                             !.sources = (name :> SourceEntry(name, result)) @@ @,
                             !.errors = IF result.raised THEN Append(@, name) ELSE @]]

\* one pass of the loop over update_clients: the client's fetch_rates ended
\* in result; both except clauses record the error and go on
QueryClient(acc, name, result) ==
    [all_rates |-> IF result.raised THEN acc.all_rates
                   ELSE Update(acc.all_rates, result.rates),
     statistics |-> [acc.statistics EXCEPT
                        !.queried = Append(@, name),
                        !.sources = (name :> SourceEntry(name, result)) @@ @,
                        !.errors = IF result.raised THEN Append(@, name) ELSE @]]

\* the loop over update_clients, from all_rates = {} and the new statistics
RECURSIVE FetchLoop(_, _, _)
FetchLoop(update_clients, results, acc) ==
    IF update_clients = << >>
    THEN acc
    ELSE FetchLoop(Tail(update_clients), Tail(results),
                   QueryClient(acc, Head(update_clients), Head(results)))

\* "if all_rates" always taken
AlwaysSaves(rates) == TRUE

\* if all_rates
HasRates(rates) == rates # << >>

\* total_rates counted source by source: the sum of the rates_count entries
CompletedBySource(rates, st) ==
    LET RECURSIVE SumOfCounts(_)
        SumOfCounts(names) ==
            IF names = {} THEN 0
            ELSE LET n == CHOOSE n \in names : TRUE
                 IN  st.sources[n].rates_count + SumOfCounts(names \ {n})
    IN  [st EXCEPT !.total_rates = SumOfCounts(DOMAIN st.sources),
                   !.success = Cardinality(DOMAIN rates) > 0]

\* statistics as run_update returns it: total_rates = len(all_rates),
\* success = len(all_rates) > 0
Completed(rates, st) ==
    [st EXCEPT !.total_rates = Cardinality(DOMAIN rates),
               !.success = Cardinality(DOMAIN rates) > 0]

-----------------------------------------------------------------------------
(* The state before any command has run *)

\* a snapshot an earlier run of the program left in data/rates.json
InitialSnapshot == SnapshotData(("BTC_USD" :> <<60000, 1>>), 0, 0)

NoResult == EmptyObject     \* cache_result before save_current_rates has returned

NoAnswers == << >>          \* no get_rate call has returned yet

NoWallets == << >>          \* Portfolio(user_id): no wallet yet

NoTrade == [op |-> "none", status |-> "none", currency |-> "", amount |-> 0,
            value |-> <<0, 1>>, values |-> << >>, rates |-> NoPairs]

NoCall == [status |-> "none", from |-> "", to |-> "", rate |-> <<0, 1>>,
           source |-> "cache", rates |-> NoPairs, stored |-> NoPairs, fresh |-> FALSE,
           refreshes |-> 0, lookups |-> 0]

\* no RatesStorage method has been called from outside the updater
NoQuery == [op |-> "none", status |-> "none", limit |-> NoLimit, currency |-> "",
            from |-> "", to |-> "", value |-> EmptyObject, fresh |-> FALSE,
            records |-> << >>, rate |-> None, at |-> NoTime,
            again |-> [status |-> "none", fresh |-> FALSE, at |-> NoTime]]

\* the currency arguments of load_history in the model ("": none)
HistoryFilters == {"", "BTC", "usd", "EUR"}

\* RatesScheduler(): not running, no thread, no job registered; loops[l] is
\* where the l-th thread that start() creates is in _run_scheduler, and
\* told[l] says that stop() was called while it was alive
NoScheduler ==
    [running |-> FALSE, interval |-> SCHEDULER_INTERVAL_MINUTES, thread |-> 0,
     jobs |-> << >>, loops |-> [l \in 1..MaxLoops |-> "unborn"],
     told |-> [l \in 1..MaxLoops |-> FALSE], main |-> "idle"]

\* the threads that call DatabaseManager in the model
DbThreads == {"t1", "t2"}

\* no register call and no DatabaseManager call is under way
NoRegister == [status |-> "none", username |-> "", password |-> "", user_id |-> 0]
NoDbCall == [pc |-> "idle", op |-> "none", key |-> "", users |-> << >>,
             portfolios |-> << >>, user_data |-> [user_id |-> 0, username |-> ""],
             portfolio_data |-> [user_id |-> 0, wallets |-> << >>]]

\* DatabaseManager() over a data directory without users.json and
\* portfolios.json: "users" is the list in users.json, "portfolios" the dict
\* in portfolios.json, "register" the register call of the command line and
\* th[t] the DatabaseManager call of thread t
NoDatabase ==
    [users_exists |-> FALSE, users |-> << >>,
     portfolios_exists |-> FALSE, portfolios |-> << >>,
     register |-> NoRegister,
     th |-> [t \in DbThreads |-> NoDbCall]]

\* no function wrapped by retry_on_failure is being called: "calls" is how
\* each call of the wrapped function ended, "slept" the time.sleep(delay)
\* calls made
NoRetry == [status |-> "none", max_retries |-> 0, attempt |-> 0, calls |-> << >>,
            last_exception |-> "", error |-> "", slept |-> 0]

\* no _make_request call has been made
NoRequest == [status |-> "none", attempt |-> 0, slept |-> 0, error |-> "",
              body |-> "", responses |-> << >>]

Init ==
    /\ now = 0
    /\ ticks = 0
    /\ \E f \in {NoFile, CompleteFile(InitialSnapshot)} :
          fs = [p \in Paths |-> IF p = RATES_FILE THEN f ELSE NoFile]
    /\ rd_seen = {}
    /\ rates_writer = "none"
    /\ ncycles = 0
    /\ pc = [t \in Threads |-> "idle"]
    /\ cycle = [t \in Threads |-> 0]
    /\ all_rates = [t \in Threads |-> NoPairs]
    /\ buf = [t \in Threads |-> EmptyObject]
    /\ target = [t \in Threads |-> RATES_FILE]
    /\ cache_result = [t \in Threads |-> NoResult]
    /\ history_result = [t \in Threads |-> << >>]
    /\ statistics = [t \in Threads |-> NoStatistics]
    /\ EXCHANGERATE_API_KEY \in ApiKeys
    /\ clients = create_api_client("all", EXCHANGERATE_API_KEY)
    /\ rd_pc = "idle"
    /\ rd_result = EmptySnapshot
    /\ pm_cache = NoPairs
    /\ pm_cache_ts = NoTime
    /\ ger = NoCall
    /\ gr = NoAnswers
    /\ wallets = NoWallets
    /\ trade = NoTrade
    /\ call = NoQuery
    /\ req = NoRequest
    /\ sched = NoScheduler
    /\ db = NoDatabase
    /\ retry = NoRetry

\* a step that changes the files: fs and the ghosts that follow rates.json
\* (while a reader is inside _load_json, rd_seen collects what the file held;
\* gr keeps the get_rate results of the present content only)
SetFiles(files, writer) ==
    /\ fs' = files
    /\ rates_writer' = IF files[RATES_FILE] # fs[RATES_FILE] THEN writer ELSE rates_writer
    /\ rd_seen' = IF rd_pc = "opening" THEN rd_seen \cup {files[RATES_FILE]} ELSE rd_seen
    /\ gr' = IF files[RATES_FILE] # fs[RATES_FILE] THEN NoAnswers ELSE gr

config_vars == <<clients, EXCHANGERATE_API_KEY>>
service_vars == <<call, req>>
infra_vars == <<sched, db, retry>>
thread_vars == <<pc, cycle, all_rates, buf, target, cache_result, history_result, statistics>>
reader_vars == <<rd_pc, rd_result>>
pm_vars == <<pm_cache, pm_cache_ts, ger, wallets, trade>>
file_vars == <<fs, rates_writer, rd_seen, gr>>

-----------------------------------------------------------------------------
(* The clock *)

\* time passes: by a second, or by a whole TTL
Tick ==
    /\ ticks < MaxTicks
    /\ \E d \in {1, CACHE_TTL_SECONDS} : now' = now + d
    /\ ticks' = ticks + 1
    /\ UNCHANGED <<file_vars, config_vars, infra_vars, service_vars, ncycles, thread_vars, reader_vars, pm_vars>>

-----------------------------------------------------------------------------
(* RatesUpdater.run_update and the RatesStorage calls it makes, one thread *)
(* t at a time.  "bg" is the scheduler's thread (scheduler.py:49), "fg" the *)
(* command line's.                                                          *)

\* update_if_stale, as _scheduled_update calls it on the scheduler's thread:
\* a fresh cache ends the call, a stale one starts run_update
update_if_stale(t) ==
    /\ pc[t] = "idle"
    /\ ncycles < MaxCycles
    /\ IF is_cache_fresh_raises(fs)
       THEN /\ pc' = [pc EXCEPT ![t] = "raised"]
            /\ UNCHANGED <<ncycles, cycle>>
       ELSE IF is_cache_fresh(fs, now)
       THEN /\ pc' = [pc EXCEPT ![t] = "done"]
            /\ UNCHANGED <<ncycles, cycle>>
       ELSE /\ pc' = [pc EXCEPT ![t] = "run_update"]
            /\ ncycles' = ncycles + 1
            /\ cycle' = [cycle EXCEPT ![t] = ncycles + 1]
    /\ UNCHANGED <<now, ticks, file_vars, config_vars, infra_vars, service_vars, all_rates, buf, target,
                   cache_result, history_result, statistics, reader_vars, pm_vars>>

\* force_update and run_once: run_update whatever the cache's age (on the
\* command line's thread, once the call before it has returned)
force_update(t) ==
    /\ pc[t] = "idle"
    /\ ger.status = "none"
    /\ call.status = "none"
    /\ ncycles < MaxCycles
    /\ pc' = [pc EXCEPT ![t] = "run_update"]
    /\ ncycles' = ncycles + 1
    /\ cycle' = [cycle EXCEPT ![t] = ncycles + 1]
    /\ UNCHANGED <<now, ticks, file_vars, config_vars, infra_vars, service_vars, all_rates, buf, target,
                   cache_result, history_result, statistics, reader_vars, pm_vars>>

\* run_update up to "if all_rates": the sources are queried in list order
\* and merged; with no rate at all the call is over
run_update_fetching(t, fetch(_)) ==
    /\ pc[t] = "run_update"
    /\ \E update_clients \in { UpdateClients(source) : source \in SourcesOf(t) } :
       \E results \in FetchResultsOf(update_clients, fetch) :
          \E r \in { FetchLoop(update_clients, results,
                               [all_rates |-> NoPairs,
                                statistics |-> [NoStatistics EXCEPT
                                                   !.update_clients = update_clients]]) } :
             /\ all_rates' = [all_rates EXCEPT ![t] = r.all_rates]
             /\ IF HasRates(r.all_rates)
                THEN /\ pc' = [pc EXCEPT ![t] = "save_current_rates"]
                     /\ statistics' = [statistics EXCEPT ![t] = r.statistics]
                ELSE /\ pc' = [pc EXCEPT ![t] = "done"]
                     /\ statistics' = [statistics EXCEPT ![t] =
                                          Completed(r.all_rates, r.statistics)]
    /\ UNCHANGED <<now, ticks, file_vars, config_vars, infra_vars, service_vars, ncycles, cycle, buf, target, cache_result,
                   history_result, reader_vars, pm_vars>>

run_update_fetch(t) == run_update_fetching(t, fetch_rates)

\* the same step with sources that report any number
run_update_fetch_any_number(t) == run_update_fetching(t, fetch_rates_of_any_number)

\* save_current_rates up to its call of _atomic_write
save_current_rates(t) ==
    /\ pc[t] = "save_current_rates"
    /\ buf' = [buf EXCEPT ![t] = SnapshotData(all_rates[t], now, cycle[t])]
    /\ target' = [target EXCEPT ![t] = RATES_FILE]
    /\ pc' = [pc EXCEPT ![t] = "mkstemp"]
    /\ UNCHANGED <<now, ticks, file_vars, config_vars, infra_vars, service_vars, ncycles, cycle, all_rates, cache_result,
                   history_result, statistics, reader_vars, pm_vars>>

\* save_to_history up to its call of _atomic_write
save_to_history(t) ==
    /\ pc[t] = "save_to_history"
    /\ buf' = [buf EXCEPT ![t] =
                  JsonList(_load_history(fs).list \o HistoryRecords(all_rates[t], now, cycle[t]))]
    /\ target' = [target EXCEPT ![t] = HISTORY_FILE]
    /\ pc' = [pc EXCEPT ![t] = "mkstemp"]
    /\ UNCHANGED <<now, ticks, file_vars, config_vars, infra_vars, service_vars, ncycles, cycle, all_rates, cache_result,
                   history_result, statistics, reader_vars, pm_vars>>

\* _atomic_write: mkstemp; when it raises, no temporary file was made
atomic_write_mkstemp(t) ==
    /\ pc[t] = "mkstemp"
    /\ \/ /\ SetFiles(Mkstemp(fs, t, target[t]), "RatesStorage")
          /\ pc' = [pc EXCEPT ![t] = "dump"]
       \/ /\ pc' = [pc EXCEPT ![t] = "raised"]
          /\ UNCHANGED file_vars
    /\ UNCHANGED <<now, ticks, config_vars, infra_vars, service_vars, ncycles, cycle, all_rates, buf, target, cache_result,
                   history_result, statistics, reader_vars, pm_vars>>

\* _atomic_write: json.dump into the temporary file; when it raises, the
\* handler unlinks the temporary file and raises IOError
atomic_write_dump(t) ==
    /\ pc[t] = "dump"
    /\ \/ /\ SetFiles(Dump(fs, t, target[t], buf[t]), "RatesStorage")
          /\ pc' = [pc EXCEPT ![t] = "replace"]
       \/ /\ SetFiles(UnlinkTemp(fs, t, target[t]), "RatesStorage")
          /\ pc' = [pc EXCEPT ![t] = "raised"]
    /\ UNCHANGED <<now, ticks, config_vars, infra_vars, service_vars, ncycles, cycle, all_rates, buf, target, cache_result,
                   history_result, statistics, reader_vars, pm_vars>>

\* _atomic_write: the replace, and the return of save_current_rates (data) or
\* of save_to_history (saved_records), after which run_update completes its
\* statistics; when the replace raises, the handler unlinks the temporary
\* file and raises IOError
atomic_write_replace(t) ==
    /\ pc[t] = "replace"
    /\ \/ /\ SetFiles(Replace(fs, t, target[t]), "RatesStorage")
          /\ IF target[t] = RATES_FILE
             THEN /\ cache_result' = [cache_result EXCEPT ![t] = buf[t]]
                  /\ pc' = [pc EXCEPT ![t] = "save_to_history"]
                  /\ UNCHANGED <<history_result, statistics>>
             ELSE /\ history_result' = [history_result EXCEPT ![t] =
                        SubSeq(buf[t].list,
                               Len(buf[t].list) - Len(KeysOf(all_rates[t])) + 1,
                               Len(buf[t].list))]
                  /\ pc' = [pc EXCEPT ![t] = "done"]
                  /\ statistics' = [statistics EXCEPT ![t] =
                                       Completed(all_rates[t], statistics[t])]
                  /\ UNCHANGED cache_result
       \/ /\ SetFiles(UnlinkTemp(fs, t, target[t]), "RatesStorage")
          /\ pc' = [pc EXCEPT ![t] = "raised"]
          /\ UNCHANGED <<cache_result, history_result, statistics>>
    /\ UNCHANGED <<now, ticks, config_vars, infra_vars, service_vars, ncycles, cycle, all_rates, buf, target, reader_vars, pm_vars>>

\* run_update (or update_if_stale) returns its statistics, or the IOError of
\* _atomic_write leaves it; the call's locals are gone
run_update_return(t) ==
    /\ pc[t] \in {"done", "raised"}
    /\ pc' = [pc EXCEPT ![t] = "idle"]
    /\ cycle' = [cycle EXCEPT ![t] = 0]
    /\ all_rates' = [all_rates EXCEPT ![t] = NoPairs]
    /\ buf' = [buf EXCEPT ![t] = EmptyObject]
    /\ target' = [target EXCEPT ![t] = RATES_FILE]
    /\ cache_result' = [cache_result EXCEPT ![t] = NoResult]
    /\ history_result' = [history_result EXCEPT ![t] = << >>]
    /\ statistics' = [statistics EXCEPT ![t] = NoStatistics]
    /\ UNCHANGED <<now, ticks, file_vars, config_vars, infra_vars, service_vars, ncycles, reader_vars, pm_vars>>

\* a call of a RatesStorage method from the command line, between two
\* commands
Called(op, status) == [NoQuery EXCEPT !.op = op, !.status = status]

CanCall == pc["fg"] = "idle" /\ call.status = "none" /\ ger.status = "none"

\* clear_cache: unlinks rates.json if it exists
clear_cache ==
    /\ CanCall
    /\ IF fs[RATES_FILE].exists
       THEN SetFiles(Unlink(fs, RATES_FILE), "RatesStorage")
       ELSE UNCHANGED file_vars
    /\ call' = Called("clear_cache", "returned")
    /\ UNCHANGED <<now, ticks, config_vars, infra_vars, req, ncycles, thread_vars, reader_vars, pm_vars>>

\* clear_history: unlinks the history file if it exists
clear_history ==
    /\ CanCall
    /\ IF fs[HISTORY_FILE].exists
       THEN SetFiles(Unlink(fs, HISTORY_FILE), "RatesStorage")
       ELSE UNCHANGED file_vars
    /\ call' = Called("clear_history", "returned")
    /\ UNCHANGED <<now, ticks, config_vars, infra_vars, req, ncycles, thread_vars, reader_vars, pm_vars>>

\* is_cache_fresh()
call_is_cache_fresh ==
    /\ CanCall
    /\ call' = IF is_cache_fresh_raises(fs)
               THEN Called("is_cache_fresh", "raised")
               ELSE [Called("is_cache_fresh", "returned") EXCEPT
                        !.fresh = is_cache_fresh(fs, now), !.at = now]
    /\ SetFiles(OpenReading(fs, RATES_FILE), "RatesStorage")
    /\ UNCHANGED <<now, ticks, config_vars, infra_vars, req, ncycles, thread_vars,
                   reader_vars, pm_vars>>

\* is_cache_fresh() once more, the next statement after a call of it that
\* returned
call_is_cache_fresh_again ==
    /\ call.op = "is_cache_fresh" /\ call.status = "returned"
    /\ call.again.status = "none"
    /\ call' = [call EXCEPT !.again =
                   IF is_cache_fresh_raises(fs)
                   THEN [status |-> "raised", fresh |-> FALSE, at |-> now]
                   ELSE [status |-> "returned", fresh |-> is_cache_fresh(fs, now),
                         at |-> now]]
    /\ SetFiles(OpenReading(fs, RATES_FILE), "RatesStorage")
    /\ UNCHANGED <<now, ticks, config_vars, infra_vars, req, ncycles, thread_vars,
                   reader_vars, pm_vars>>

\* load_current_rates()
call_load_current_rates ==
    /\ CanCall
    /\ call' = IF load_current_rates_raises(fs)
               THEN Called("load_current_rates", "raised")
               ELSE [Called("load_current_rates", "returned") EXCEPT
                        !.value = load_current_rates(fs)]
    /\ SetFiles(OpenReading(fs, RATES_FILE), "RatesStorage")
    /\ UNCHANGED <<now, ticks, config_vars, infra_vars, req, ncycles, thread_vars,
                   reader_vars, pm_vars>>

\* load_history(limit, currency)
call_load_history ==
    /\ CanCall
    /\ ~_load_json_raises(fs, HISTORY_FILE)
    /\ \E limit \in {NoLimit} \cup 0..MaxLimit, currency \in HistoryFilters :
          call' = [Called("load_history", "returned") EXCEPT
                      !.limit = limit, !.currency = currency,
                      !.records = load_history(fs, limit, currency)]
    /\ SetFiles(OpenReading(fs, HISTORY_FILE), "RatesStorage")
    /\ UNCHANGED <<now, ticks, config_vars, infra_vars, req, ncycles, thread_vars,
                   reader_vars, pm_vars>>

\* get_rate(from_currency, to_currency) on a snapshot that loads as an object
call_get_rate ==
    /\ CanCall
    /\ ~is_cache_fresh_raises(fs)
    /\ \E from \in {"BTC", "USD"}, to \in {"USD", "EUR"} :
          call' = [Called("get_rate", "returned") EXCEPT
                      !.from = from, !.to = to, !.rate = get_rate(fs, from, to)]
    /\ SetFiles(OpenReading(fs, RATES_FILE), "RatesStorage")
    /\ UNCHANGED <<now, ticks, config_vars, infra_vars, req, ncycles, thread_vars,
                   reader_vars, pm_vars>>

\* the call is over and its result dropped
call_return ==
    /\ call.status # "none"
    /\ call' = NoQuery
    /\ UNCHANGED <<now, ticks, file_vars, config_vars, infra_vars, req, ncycles, thread_vars,
                   reader_vars, pm_vars>>

-----------------------------------------------------------------------------
(* A reader: load_current_rates on another thread, in the two steps of      *)
(* _load_json                                                               *)

\* filepath.exists()
load_json_exists ==
    /\ rd_pc = "idle"
    /\ rd_seen' = {fs[RATES_FILE]}
    /\ IF fs[RATES_FILE].exists
       THEN rd_pc' = "opening" /\ UNCHANGED rd_result
       ELSE rd_pc' = "done" /\ rd_result' = EmptySnapshot
    /\ UNCHANGED <<now, ticks, fs, rates_writer, gr, config_vars, infra_vars, service_vars, ncycles, thread_vars, pm_vars>>

\* open(filepath) and json.load(f)
load_json_open ==
    /\ rd_pc = "opening"
    /\ rd_result' = load_current_rates(fs)
    /\ rd_pc' = "done"
    /\ UNCHANGED <<now, ticks, file_vars, config_vars, infra_vars, service_vars, ncycles, thread_vars, pm_vars>>

\* the caller is done with the result
load_json_return ==
    /\ rd_pc = "done"
    /\ rd_pc' = "idle"
    /\ rd_result' = EmptySnapshot
    /\ rd_seen' = {}
    /\ UNCHANGED <<now, ticks, fs, rates_writer, gr, config_vars, infra_vars, service_vars, ncycles, thread_vars, pm_vars>>

-----------------------------------------------------------------------------
(* DatabaseManager (infra/database.py) on "rates.json", which is the same   *)
(* file data/rates.json.  Each operator gives the value returned and the    *)
(* files as the call leaves them.                                           *)

\* the fixed table of DatabaseManager._refresh_exchange_rates
MockTable ==
    ("EUR_USD" :> Rat(10786, 10000)) @@ ("BTC_USD" :> Rat(5933721, 100)) @@
    ("RUB_USD" :> Rat(1016, 100000)) @@ ("ETH_USD" :> Rat(3720, 1)) @@
    ("USD_EUR" :> Rat(9271, 10000)) @@ ("USD_BTC" :> Rat(1685, 100000000))

\* save_data("rates.json", data): written beside the file and replaced,
\* under the manager's lock
db_save_data(files, data) == [files EXCEPT ![RATES_FILE] = CompleteFile(data)]

\* load_data("rates.json", {}): an absent file is first created from the
\* default; a file that does not parse reads as {}
db_load_data(files) ==
    IF ~files[RATES_FILE].exists
    THEN [data |-> EmptyObject, files |-> db_save_data(files, EmptyObject)]
    ELSE [data |-> _load_json(files, RATES_FILE, EmptyObject), files |-> files]

\* new_rates of _refresh_exchange_rates: last_refresh is read from the clock
\* at clock, the updated_at of the pairs drift seconds later
MockData(clock, drift) ==
    JsonObject({"last_refresh", "source", "rates"}, clock, NoPairs,
               [k \in DOMAIN MockTable |->
                   [rate |-> MockTable[k], updated_at |-> clock + drift]], 0)

\* DatabaseManager._refresh_exchange_rates
db_refresh_exchange_rates(files, clock, drift) ==
    [data |-> MockData(clock, drift), files |-> db_save_data(files, MockData(clock, drift))]

\* DatabaseManager.get_exchange_rates
db_get_exchange_rates(files, clock, drift) ==
    LET l == db_load_data(files)
    IN  IF l.data.fields = {} \/ GetLastRefresh(l.data) = NoTime
        THEN db_refresh_exchange_rates(l.files, clock, drift)
        ELSE l

\* DatabaseManager.is_rate_fresh
db_is_rate_fresh(files, clock) ==
    LET l == db_load_data(files)
    IN  [fresh |-> /\ l.data.fields # {}
                   /\ "last_refresh" \in l.data.fields
                   /\ l.data.last_refresh # NoTime
                   /\ clock - l.data.last_refresh <= rates_ttl_seconds,
         files |-> l.files]

-----------------------------------------------------------------------------
(* PortfolioManager (core/usecases.py).  st is the state a call works on:   *)
(* [files, cache (_exchange_rates_cache), cache_ts (_cache_timestamp)],     *)
(* with two ghost counters of what the call has done so far: refreshes      *)
(* (runs of db._refresh_exchange_rates) and lookups (searches of a pair in  *)
(* the rates).                                                              *)
(* Each operator gives the state as the call leaves it, whether the call    *)
(* raised ApiRequestError, and the value returned.                          *)

\* PortfolioManager._refresh_exchange_rates under retry_on_failure(3): ok
\* when one of its attempts got past the random failure and
\* db._refresh_exchange_rates ran, ApiRequestError when all three failed
pm_refresh_exchange_rates(st, clock, drift, ok) ==
    IF ok
    THEN [st |-> [st EXCEPT !.files = db_refresh_exchange_rates(st.files, clock, drift).files,
                            !.refreshes = @ + 1],
          raised |-> FALSE]
    ELSE [st |-> st, raised |-> TRUE]

\* db.get_exchange_rates() on files runs db._refresh_exchange_rates()
DbRefreshes(files) ==
    db_load_data(files).data.fields = {} \/ GetLastRefresh(db_load_data(files).data) = NoTime

\* _get_exchange_rates past db.is_rate_fresh(), whose answer is f: the
\* refresh when the rates are stale or forced, then db.get_exchange_rates()
GetRatesFromDb(st, f, clock, drift, force_refresh, ok) ==
    IF (~f.fresh \/ force_refresh) /\ ~ok
    THEN [st |-> [st EXCEPT !.files = f.files], raised |-> TRUE, rates |-> NoPairs]
    ELSE CHOOSE res \in
            { [st |-> [st EXCEPT !.files = g.files, !.cache = GetRates(g.data),
                                 !.cache_ts = g.data.last_refresh,
                                 !.refreshes = @ + n],
               raised |-> FALSE, rates |-> GetRates(g.data)] :
              <<g, n>> \in
                 { <<db_get_exchange_rates(files, clock, drift),
                     (IF ~f.fresh \/ force_refresh THEN 1 ELSE 0)
                        + (IF DbRefreshes(files) THEN 1 ELSE 0)>> :
                   files \in { IF ~f.fresh \/ force_refresh
                               THEN db_refresh_exchange_rates(f.files, clock, drift).files
                               ELSE f.files } } } : TRUE

\* PortfolioManager._get_exchange_rates(force_refresh)
pm_get_exchange_rates(st, clock, drift, force_refresh, ok) ==
    IF \/ force_refresh
       \/ st.cache = NoPairs
       \/ st.cache_ts = NoTime
       \/ clock - st.cache_ts > rates_ttl_seconds
    THEN CHOOSE res \in
            { GetRatesFromDb(st, f, clock, drift, force_refresh, ok) :
              f \in { db_is_rate_fresh(st.files, clock) } } : TRUE
    ELSE [st |-> st, raised |-> FALSE, rates |-> st.cache]

NoRate == [kind |-> "None", rate |-> <<0, 1>>, source |-> "cache"]
ZeroDivision == [kind |-> "ZeroDivisionError", rate |-> <<0, 1>>, source |-> "cache"]
Found(rate, source) == [kind |-> "rate", rate |-> rate, source |-> source]

\* 1 / rate
Reciprocal(rate) == IF rate[1] = 0 THEN ZeroDivision ELSE Found(RatDiv(One, rate), "cache")

\* PortfolioManager._get_rate_via_usd
pm_get_rate_via_usd(currency, rates) ==
    IF currency = "USD" THEN Found(One, "cache")
    ELSE IF PairKey(currency, "USD") \in DOMAIN rates
         THEN Found(rates[PairKey(currency, "USD")].rate, "cache")
    ELSE IF PairKey("USD", currency) \in DOMAIN rates
         THEN Reciprocal(rates[PairKey("USD", currency)].rate)
    ELSE NoRate

\* "if usd_rate_from and usd_rate_to": neither None nor 0
Truthy(r) == r.kind = "rate" /\ r.rate[1] # 0

\* the two-hop rate of get_exchange_rate, from the two rates to USD
ViaUsdRate(usd_rate_from, usd_rate_to) == RatDiv(usd_rate_to, usd_rate_from)

\* get_exchange_rate, the lookup in exchange_rates: the direct pair, the
\* reverse pair, then both currencies through USD
CacheLookup(from, to, rates) ==
    LET rate_key == PairKey(from, to)
        reverse_key == PairKey(to, from)
        usd_rate_from == pm_get_rate_via_usd(from, rates)
        usd_rate_to == pm_get_rate_via_usd(to, rates)
    IN  IF rate_key \in DOMAIN rates THEN Found(rates[rate_key].rate, "cache")
        ELSE IF reverse_key \in DOMAIN rates THEN Reciprocal(rates[reverse_key].rate)
        ELSE IF usd_rate_from.kind = "ZeroDivisionError" THEN ZeroDivision
        ELSE IF usd_rate_to.kind = "ZeroDivisionError" THEN ZeroDivision
        ELSE IF Truthy(usd_rate_from) /\ Truthy(usd_rate_to)
             THEN Found(ViaUsdRate(usd_rate_from.rate, usd_rate_to.rate), "calculated_via_USD")
        ELSE NoRate

\* get_exchange_rate, the lookup after the refresh: the direct pair only
RefreshLookup(from, to, rates) ==
    IF PairKey(from, to) \in DOMAIN rates
    THEN Found(rates[PairKey(from, to)].rate, "api_refresh")
    ELSE NoRate

\* the rates g that _get_exchange_rates returned are searched for the pair
Looked(g) == IF g.raised THEN g ELSE [g EXCEPT !.st.lookups = @ + 1]

Outcome(st, status, found, rates) ==
    [st |-> st, status |-> status, found |-> found, rates |-> rates]

\* get_exchange_rate from "if rate is None": g1 is what _get_exchange_rates()
\* returned, r2 the outcome of _refresh_exchange_rates(), g2 what
\* _get_exchange_rates(force_refresh=True) returned; every exception in
\* there is raised again as ApiRequestError
GetRateAfterRefresh(g1, r2, g2, from, to) ==
    IF r2.raised THEN Outcome(r2.st, "ApiRequestError", NoRate, g1.rates)
    ELSE IF g2.raised THEN Outcome(g2.st, "ApiRequestError", NoRate, g1.rates)
    ELSE IF RefreshLookup(from, to, g2.rates).kind = "rate"
         THEN Outcome(g2.st, "ok", RefreshLookup(from, to, g2.rates), g1.rates)
    ELSE Outcome(g2.st, "ApiRequestError", NoRate, g1.rates)

\* get_exchange_rate from the lookup l1 in the rates g1 on
GetRateAfterLookup(g1, l1, clock, drift, from, to, oks) ==
    IF g1.raised THEN Outcome(g1.st, "ApiRequestError", NoRate, g1.rates)
    ELSE IF l1.kind = "ZeroDivisionError" THEN Outcome(g1.st, "ZeroDivisionError", l1, g1.rates)
    ELSE IF l1.kind = "rate" THEN Outcome(g1.st, "ok", l1, g1.rates)
    ELSE CHOOSE res \in
            { GetRateAfterRefresh(g1, r2, g2, from, to) :
              <<r2, g2>> \in
                 { <<r, Looked(pm_get_exchange_rates(r.st, clock, drift, TRUE, oks[3]))>> :
                   r \in { pm_refresh_exchange_rates(g1.st, clock, drift, oks[2]) } } } : TRUE

\* one run of get_exchange_rate's body.  oks[1..3]: the outcomes of the
\* _refresh_exchange_rates calls it can make (in _get_exchange_rates, at
\* "rate is None", and in _get_exchange_rates(force_refresh=True))
GetRateAttempt(st, clock, drift, from, to, oks) ==
    CHOOSE res \in
        { GetRateAfterLookup(g1, l1, clock, drift, from, to, oks) :
          <<g1, l1>> \in
             { <<g, CacheLookup(from, to, g.rates)>> :
               g \in { Looked(pm_get_exchange_rates(st, clock, drift, FALSE, oks[1])) } } } : TRUE

\* get_exchange_rate under retry_on_failure(max_retries=2): the body runs
\* again once after an ApiRequestError
pm_get_exchange_rate(st, clock, drift, from, to, oks1, oks2) ==
    CHOOSE res \in
        { IF a1.status = "ApiRequestError"
          THEN GetRateAttempt(a1.st, clock, drift, from, to, oks2)
          ELSE a1 :
          a1 \in { GetRateAttempt(st, clock, drift, from, to, oks1) } } : TRUE

\* the state a call of the PortfolioManager starts in
CallState ==
    [files |-> fs, cache |-> pm_cache, cache_ts |-> pm_cache_ts,
     refreshes |-> 0, lookups |-> 0]

\* the currencies the model's get_exchange_rate calls ask about
QueryCodes == {"USD", "EUR", "BTC", "GBP"}

\* how far the clock can move inside one DatabaseManager._refresh_exchange_rates
Drifts == IF ticks < MaxTicks THEN {0, 1} ELSE {0}

\* a call of PortfolioManager.get_exchange_rate(from, to) while no update
\* runs; ger keeps its arguments, what it resolved from and its outcome.  Of the
\* up to six _refresh_exchange_rates calls it can make (three per run of the
\* body), at most one, the failing-th, exhausts its retries
get_exchange_rate(from, to) ==
    /\ \A t \in Threads : pc[t] = "idle"
    /\ ger.status = "none"
    /\ trade.status = "none"
    /\ \E drift \in Drifts, failing \in 0..6 :
       \E oks1 \in { [i \in 1..3 |-> i # failing] }, oks2 \in { [i \in 1..3 |-> i + 3 # failing] } :
       \E st \in { CallState } :
       \E a \in { pm_get_exchange_rate(st, now, drift, from, to, oks1, oks2) } :
          LET snapshot == load_current_rates(fs)
          IN  /\ SetFiles(a.st.files, "DatabaseManager")
              /\ pm_cache' = a.st.cache
              /\ pm_cache_ts' = a.st.cache_ts
              /\ ger' = [status |-> a.status, from |-> from, to |-> to,
                         rate |-> a.found.rate, source |-> a.found.source,
                         rates |-> a.rates,
                         stored |-> IF snapshot.cycle > 0 THEN GetPairs(snapshot) ELSE NoPairs,
                         fresh |-> is_cache_fresh(fs, now),
                         refreshes |-> a.st.refreshes, lookups |-> a.st.lookups]
              /\ now' = now + drift
              /\ ticks' = ticks + drift
    /\ UNCHANGED <<config_vars, infra_vars, service_vars, ncycles, thread_vars, reader_vars, wallets, trade>>

\* the caller of get_exchange_rate is done with the result
get_exchange_rate_return ==
    /\ ger.status # "none"
    /\ ger' = NoCall
    /\ UNCHANGED <<now, ticks, file_vars, config_vars, infra_vars, service_vars, ncycles, thread_vars, reader_vars,
                   pm_cache, pm_cache_ts, wallets, trade>>

\* what buy, sell and show-portfolio do to the rates: _get_exchange_rates()
get_exchange_rates ==
    /\ \A t \in Threads : pc[t] = "idle"
    /\ ger.status = "none"
    /\ \E drift \in Drifts, ok \in BOOLEAN :
       \E st \in { CallState } :
       \E g \in { pm_get_exchange_rates(st, now, drift, FALSE, ok) } :
              /\ SetFiles(g.st.files, "DatabaseManager")
              /\ pm_cache' = g.st.cache
              /\ pm_cache_ts' = g.st.cache_ts
              /\ now' = now + drift
              /\ ticks' = ticks + drift
    /\ UNCHANGED <<config_vars, infra_vars, service_vars, ncycles, thread_vars, reader_vars, ger, wallets, trade>>

-----------------------------------------------------------------------------
(* Specifications *)

\* the refresh coordinator on the scheduler's thread and on the command line's
Next ==
    \/ Tick
    \/ update_if_stale("bg")
    \/ force_update("fg")
    \/ \E t \in Threads :
          \/ run_update_fetch(t)
          \/ save_current_rates(t)
          \/ save_to_history(t)
          \/ atomic_write_mkstemp(t)
          \/ atomic_write_dump(t)
          \/ atomic_write_replace(t)
          \/ run_update_return(t)

Spec == Init /\ [][Next]_vars

\* one writer of the snapshot (update-rates and clear-cache commands) and a
\* reader on another thread
NextRead ==
    \/ Tick
    \/ force_update("fg")
    \/ run_update_fetch("fg")
    \/ save_current_rates("fg")
    \/ save_to_history("fg")
    \/ atomic_write_mkstemp("fg")
    \/ atomic_write_dump("fg")
    \/ atomic_write_replace("fg")
    \/ run_update_return("fg")
    \/ clear_cache
    \/ call_return
    \/ load_json_exists
    \/ load_json_open
    \/ load_json_return

SpecRead == Init /\ [][NextRead]_vars

\* one thread alone: update-rates commands, get_exchange_rate calls and
\* buy/sell/show-portfolio commands, one at a time
NextConv ==
    \/ Tick
    \/ force_update("fg")
    \/ run_update_fetch("fg")
    \/ save_current_rates("fg")
    \/ save_to_history("fg")
    \/ atomic_write_mkstemp("fg")
    \/ atomic_write_dump("fg")
    \/ atomic_write_replace("fg")
    \/ run_update_return("fg")
    \/ get_exchange_rates
    \/ \E from \in QueryCodes, to \in QueryCodes : get_exchange_rate(from, to)
    \/ get_exchange_rate_return

\* data/rates.json as a user or an earlier run may have left it: absent,
\* cut short, not text, a JSON list, or a snapshot whose last_refresh is a
\* time, null, or not a time
StoredSnapshots ==
    {NoFile, PartialFile, BinaryFile, CompleteFile(JsonList(<< >>)),
     CompleteFile(InitialSnapshot),
     CompleteFile([InitialSnapshot EXCEPT !.last_refresh = NoTime]),
     CompleteFile([InitialSnapshot EXCEPT !.last_refresh = BadTime])}

\* the history an earlier run left: two records of one call
InitialHistory ==
    JsonList(HistoryRecords(("BTC_USD" :> <<60000, 1>>) @@ ("EUR_USD" :> <<11, 10>>), 0, 0))

StoredHistories == {NoFile, CompleteFile(InitialHistory)}

InitStore ==
    /\ now = 0
    /\ ticks = 0
    /\ \E f \in StoredSnapshots, h \in StoredHistories :
          fs = [p \in Paths |-> IF p = RATES_FILE THEN f
                                ELSE IF p = HISTORY_FILE THEN h ELSE NoFile]
    /\ rd_seen = {}
    /\ rates_writer = "none"
    /\ ncycles = 0
    /\ pc = [t \in Threads |-> "idle"]
    /\ cycle = [t \in Threads |-> 0]
    /\ all_rates = [t \in Threads |-> NoPairs]
    /\ buf = [t \in Threads |-> EmptyObject]
    /\ target = [t \in Threads |-> RATES_FILE]
    /\ cache_result = [t \in Threads |-> NoResult]
    /\ history_result = [t \in Threads |-> << >>]
    /\ statistics = [t \in Threads |-> NoStatistics]
    /\ EXCHANGERATE_API_KEY = "key"
    /\ clients = create_api_client("all", EXCHANGERATE_API_KEY)
    /\ rd_pc = "idle"
    /\ rd_result = EmptySnapshot
    /\ pm_cache = NoPairs
    /\ pm_cache_ts = NoTime
    /\ ger = NoCall
    /\ gr = NoAnswers
    /\ wallets = NoWallets
    /\ trade = NoTrade
    /\ call = NoQuery
    /\ req = NoRequest
    /\ sched = NoScheduler
    /\ db = NoDatabase
    /\ retry = NoRetry

\* RatesStorage driven from one thread: update-rates commands, the two
\* clear commands, and the read methods, one call at a time
NextStore ==
    \/ Tick
    \/ force_update("fg")
    \/ run_update_fetch("fg")
    \/ save_current_rates("fg")
    \/ save_to_history("fg")
    \/ atomic_write_mkstemp("fg")
    \/ atomic_write_dump("fg")
    \/ atomic_write_replace("fg")
    \/ run_update_return("fg")
    \/ clear_cache
    \/ clear_history
    \/ call_is_cache_fresh
    \/ call_is_cache_fresh_again
    \/ call_load_current_rates
    \/ call_load_history
    \/ call_get_rate
    \/ call_return

SpecStore == InitStore /\ [][NextStore]_vars

\* update-rates commands from one thread, with sources that report any number
NextFeed ==
    \/ Tick
    \/ update_if_stale("fg")
    \/ force_update("fg")
    \/ run_update_fetch_any_number("fg")
    \/ save_current_rates("fg")
    \/ save_to_history("fg")
    \/ atomic_write_mkstemp("fg")
    \/ atomic_write_dump("fg")
    \/ atomic_write_replace("fg")
    \/ run_update_return("fg")

SpecFeed == InitStore /\ [][NextFeed]_vars

-----------------------------------------------------------------------------
(* BaseApiClient._make_request (parser_service/api_clients.py) *)

NoHeader == 0 - 1    \* the response has no Retry-After header
HttpDate == 0 - 2    \* a Retry-After header that is an HTTP-date, not seconds

\* what session.request does on one attempt: a response with a status code
\* (a 429 with or without Retry-After), or one of the requests exceptions
Responses ==
    { [code |-> c, raises |-> "", retry_after |-> NoHeader] : c \in {200, 401, 403, 500} }
    \cup { [code |-> 429, raises |-> "", retry_after |-> h] : h \in {NoHeader, 1, 120, HttpDate} }
    \cup { [code |-> 0, raises |-> e, retry_after |-> NoHeader] :
              e \in {"Timeout", "ConnectionError", "RequestException"} }

\* int(response.headers.get('Retry-After', 60)); int() of an HTTP-date
\* raises ValueError
RetryAfter(response) ==
    IF response.retry_after = NoHeader THEN DefaultRetryAfter
    ELSE response.retry_after

RetryAfterRaises(response) == response.retry_after = HttpDate

\* a pass that treats every failure alike: anything but a 200 response is
\* followed by RETRY_DELAY and another attempt while attempts remain
AttemptRetryingAll(r, response) ==
    LET made == [r EXCEPT !.attempt = @ + 1, !.responses = Append(@, response)]
    IN  IF response.raises = "" /\ response.code = 200
        THEN [made EXCEPT !.status = "returned", !.body = "json"]
        ELSE IF r.attempt = REQUEST_RETRIES - 1
        THEN [made EXCEPT !.status = "raised", !.error = "ApiRequestError"]
        ELSE [made EXCEPT !.slept = @ + RETRY_DELAY]

\* one pass of the for loop over response, r being the call so far; the
\* raise after the loop belongs to the last pass
Attempt(r, response) ==
    LET made == [r EXCEPT !.attempt = @ + 1, !.responses = Append(@, response)]
        last == r.attempt = REQUEST_RETRIES - 1
    IN  IF response.raises # ""
        THEN IF last
             THEN [made EXCEPT !.status = "raised", !.error = "ApiRequestError"]
             ELSE [made EXCEPT !.slept = @ + RETRY_DELAY]
        ELSE IF response.code = 200
        THEN [made EXCEPT !.status = "returned", !.body = "json"]
        ELSE IF response.code = 429
        THEN IF RetryAfterRaises(response)
             THEN [made EXCEPT !.status = "raised", !.error = "ValueError"]
             ELSE IF last
             THEN [made EXCEPT !.status = "raised", !.error = "ApiRequestError"]
             ELSE [made EXCEPT !.slept = @ + RetryAfter(response)]
        ELSE [made EXCEPT !.status = "raised", !.error = "ApiRequestError"]

\* _make_request is called
_make_request_call ==
    /\ req.status = "none"
    /\ req' = [NoRequest EXCEPT !.status = "running"]
    /\ UNCHANGED <<now, ticks, file_vars, config_vars, infra_vars, call, ncycles, thread_vars,
                   reader_vars, pm_vars>>

\* one attempt
_make_request_attempt ==
    /\ req.status = "running"
    /\ req.attempt < REQUEST_RETRIES
    /\ \E response \in Responses : req' = Attempt(req, response)
    /\ UNCHANGED <<now, ticks, file_vars, config_vars, infra_vars, call, ncycles, thread_vars,
                   reader_vars, pm_vars>>

\* the caller has the result or the exception
_make_request_exit ==
    /\ req.status \in {"returned", "raised"}
    /\ req' = NoRequest
    /\ UNCHANGED <<now, ticks, file_vars, config_vars, infra_vars, call, ncycles, thread_vars,
                   reader_vars, pm_vars>>

NextRequest ==
    \/ _make_request_call
    \/ _make_request_attempt
    \/ _make_request_exit

SpecRequest == Init /\ [][NextRequest]_vars

-----------------------------------------------------------------------------
(* RatesScheduler (parser_service/scheduler.py).  start, stop and          *)
(* change_interval are called on the command line's thread; every thread   *)
(* that start creates runs _run_scheduler.  The jobs are those of the      *)
(* schedule module, which all schedulers and threads share.                *)

Loops == 1..MaxLoops

\* the values of --interval in the model
Intervals == {1, SCHEDULER_INTERVAL_MINUTES}

\* thread.is_alive()
Alive(l) == sched.loops[l] \notin {"unborn", "stopped"}

\* the thread is inside _scheduled_update, which lasts as long as the
\* requests of update_if_stale do
InUpdate(l) == sched.loops[l] \in {"initial_update", "update"}

\* the thread is past schedule.every(...).do(...)
Registered(l) ==
    sched.loops[l] \in {"initial_update", "check", "run_pending", "update", "sleep"}

\* schedule.every(interval).minutes.do(job)
Job(interval) == [interval |-> interval, due |-> FALSE]

\* start(background=True): nothing when running is set; otherwise sets
\* running and starts a new thread on _run_scheduler
start ==
    /\ sched.main = "idle"
    /\ IF sched.running
       THEN UNCHANGED sched
       ELSE /\ sched.thread < MaxLoops
            /\ sched' = [sched EXCEPT !.running = TRUE,
                                      !.thread = @ + 1,
                                      !.loops[sched.thread + 1] = "register"]
    /\ UNCHANGED <<now, ticks, file_vars, config_vars, service_vars, ncycles,
                   thread_vars, reader_vars, pm_vars, db, retry>>

\* stop up to thread.join: clears running and every job
stop ==
    /\ sched.main = "idle"
    /\ sched' = [sched EXCEPT
                    !.running = FALSE,
                    !.jobs = << >>,
                    !.told = [l \in Loops |-> @[l] \/ Alive(l)],
                    !.main = IF sched.thread # 0 /\ Alive(sched.thread)
                             THEN "join" ELSE "idle"]
    /\ UNCHANGED <<now, ticks, file_vars, config_vars, service_vars, ncycles,
                   thread_vars, reader_vars, pm_vars, db, retry>>

\* thread.join(timeout=5) returns: the thread has ended, or five seconds
\* have passed, which takes a thread that is inside an update
stop_join ==
    /\ sched.main = "join"
    /\ ~Alive(sched.thread) \/ InUpdate(sched.thread)
    /\ sched' = [sched EXCEPT !.main = "idle"]
    /\ UNCHANGED <<now, ticks, file_vars, config_vars, service_vars, ncycles,
                   thread_vars, reader_vars, pm_vars, db, retry>>

\* change_interval(interval_minutes): sets interval and clears every job
change_interval(interval_minutes) ==
    /\ sched.main = "idle"
    /\ sched' = [sched EXCEPT !.interval = interval_minutes, !.jobs = << >>]
    /\ UNCHANGED <<now, ticks, file_vars, config_vars, service_vars, ncycles,
                   thread_vars, reader_vars, pm_vars, db, retry>>

\* _run_scheduler: schedule.every(self.interval).minutes.do(...), then the
\* initial _scheduled_update begins
run_scheduler_register(l) ==
    /\ sched.loops[l] = "register"
    /\ sched' = [sched EXCEPT !.jobs = Append(@, Job(sched.interval)),
                              !.loops[l] = "initial_update"]
    /\ UNCHANGED <<now, ticks, file_vars, config_vars, service_vars, ncycles,
                   thread_vars, reader_vars, pm_vars, db, retry>>

\* _scheduled_update returns (it catches every exception)
scheduled_update_return(l) ==
    /\ InUpdate(l)
    /\ sched' = [sched EXCEPT !.loops[l] =
                    IF @ = "initial_update" THEN "check" ELSE "run_pending"]
    /\ UNCHANGED <<now, ticks, file_vars, config_vars, service_vars, ncycles,
                   thread_vars, reader_vars, pm_vars, db, retry>>

\* while self.running
run_scheduler_check(l) ==
    /\ sched.loops[l] = "check"
    /\ sched' = [sched EXCEPT !.loops[l] =
                    IF sched.running THEN "run_pending" ELSE "stopped"]
    /\ UNCHANGED <<now, ticks, file_vars, config_vars, service_vars, ncycles,
                   thread_vars, reader_vars, pm_vars, db, retry>>

\* schedule.run_pending(): a job that is due is run and scheduled again;
\* with none due, time.sleep(1) begins
run_pending(l) ==
    /\ sched.loops[l] = "run_pending"
    /\ IF \E i \in 1..Len(sched.jobs) : sched.jobs[i].due
       THEN LET i == CHOOSE i \in 1..Len(sched.jobs) :
                        /\ sched.jobs[i].due
                        /\ \A j \in 1..(i - 1) : ~sched.jobs[j].due
            IN  sched' = [sched EXCEPT !.jobs[i].due = FALSE, !.loops[l] = "update"]
       ELSE sched' = [sched EXCEPT !.loops[l] = "sleep"]
    /\ UNCHANGED <<now, ticks, file_vars, config_vars, service_vars, ncycles,
                   thread_vars, reader_vars, pm_vars, db, retry>>

\* time.sleep(1) returns
run_scheduler_sleep(l) ==
    /\ sched.loops[l] = "sleep"
    /\ sched' = [sched EXCEPT !.loops[l] = "check"]
    /\ UNCHANGED <<now, ticks, file_vars, config_vars, service_vars, ncycles,
                   thread_vars, reader_vars, pm_vars, db, retry>>

\* the interval of a registered job has passed: job.should_run
job_due ==
    /\ \E i \in 1..Len(sched.jobs) :
          /\ ~sched.jobs[i].due
          /\ sched' = [sched EXCEPT !.jobs[i].due = TRUE]
    /\ UNCHANGED <<now, ticks, file_vars, config_vars, service_vars, ncycles,
                   thread_vars, reader_vars, pm_vars, db, retry>>

NextSched ==
    \/ start
    \/ stop
    \/ stop_join
    \/ \E n \in Intervals : change_interval(n)
    \/ job_due
    \/ \E l \in Loops :
          \/ run_scheduler_register(l)
          \/ scheduled_update_return(l)
          \/ run_scheduler_check(l)
          \/ run_pending(l)
          \/ run_scheduler_sleep(l)

SpecSched == Init /\ [][NextSched]_vars

-----------------------------------------------------------------------------
(* retry_on_failure (decorators.py) *)

\* how a call of the wrapped function ends: it returns, or raises one of
\* these exceptions
CallOutcomes ==
    {"ok", "ApiRequestError", "ConnectionError", "TimeoutError", "ValueError", "KeyError"}

\* except Exception
CaughtAlways(outcome) == outcome # "ok"

\* except (ApiRequestError, ConnectionError, TimeoutError)
Caught(outcome) == outcome \in {"ApiRequestError", "ConnectionError", "TimeoutError"}

\* the wrapper is called: last_exception = None, the loop begins
retry_wrapper_call(max_retries) ==
    /\ retry.status = "none"
    /\ retry' = [NoRetry EXCEPT !.status = "loop", !.max_retries = max_retries]
    /\ UNCHANGED <<now, ticks, file_vars, config_vars, service_vars, ncycles, thread_vars,
                   reader_vars, pm_vars, sched, db>>

\* one pass of "for attempt in range(max_retries)": the call of func, its
\* return, or the except clause with its sleep before another attempt
retry_wrapper_attempt(outcome) ==
    /\ retry.status = "loop"
    /\ retry.attempt < retry.max_retries
    /\ retry' =
          IF outcome = "ok"
          THEN [retry EXCEPT !.status = "returned", !.calls = Append(@, outcome)]
          ELSE IF Caught(outcome)
               THEN [retry EXCEPT
                        !.calls = Append(@, outcome),
                        !.last_exception = outcome,
                        !.slept = IF retry.attempt < retry.max_retries - 1
                                  THEN @ + 1 ELSE @,
                        !.attempt = @ + 1]
               ELSE [retry EXCEPT !.status = "raised", !.calls = Append(@, outcome),
                                  !.error = outcome]
    /\ UNCHANGED <<now, ticks, file_vars, config_vars, service_vars, ncycles, thread_vars,
                   reader_vars, pm_vars, sched, db>>

\* after the loop: raise last_exception if last_exception else
\* Exception("Unknown error")
retry_wrapper_exit ==
    /\ retry.status = "loop"
    /\ retry.attempt >= retry.max_retries
    /\ retry' = [retry EXCEPT
                    !.status = "raised",
                    !.error = IF retry.last_exception # "" THEN retry.last_exception
                              ELSE "Exception"]
    /\ UNCHANGED <<now, ticks, file_vars, config_vars, service_vars, ncycles, thread_vars,
                   reader_vars, pm_vars, sched, db>>

\* the caller has the result or the exception
retry_wrapper_return ==
    /\ retry.status \in {"returned", "raised"}
    /\ retry' = NoRetry
    /\ UNCHANGED <<now, ticks, file_vars, config_vars, service_vars, ncycles, thread_vars,
                   reader_vars, pm_vars, sched, db>>

NextRetry ==
    \/ \E max_retries \in 0..MaxRetries : retry_wrapper_call(max_retries)
    \/ \E outcome \in CallOutcomes : retry_wrapper_attempt(outcome)
    \/ retry_wrapper_exit
    \/ retry_wrapper_return

\* every call of the wrapped function ends and every sleep ends: a step of
\* the loop that can be taken is taken
SpecRetry ==
    /\ Init
    /\ [][NextRetry]_vars
    /\ WF_vars(\E outcome \in CallOutcomes : retry_wrapper_attempt(outcome))
    /\ WF_vars(retry_wrapper_exit)

-----------------------------------------------------------------------------
(* UserManager.register (core/usecases.py) and DatabaseManager
   (infra/database.py) *)

\* str(user_id), the key of a portfolio in portfolios.json
Str(user_id) ==
    CASE user_id = 0 -> "0" [] user_id = 1 -> "1" [] user_id = 2 -> "2"
      [] user_id = 3 -> "3" [] user_id = 4 -> "4" [] OTHER -> "5"

\* load_data("users.json", []) and load_data("portfolios.json", {}): a
\* missing file is created with the default
LoadUsers(d) == [d EXCEPT !.users_exists = TRUE]
LoadPortfolios(d) == [d EXCEPT !.portfolios_exists = TRUE]

\* get_all_users: the list in users.json; for a missing file load_data
\* returns {}, which holds no user either
get_all_users(d) == d.users

\* get_user_by_username: the users of that name, the first of which is
\* returned (none: None)
get_user_by_username(d, username) ==
    SelectSeq(get_all_users(d), LAMBDA user : user.username = username)

\* max([u.get("user_id", 0) for u in users], default=0)
RECURSIVE MaxUserId(_)
MaxUserId(users) ==
    IF users = << >> THEN 0
    ELSE IF users[Len(users)].user_id > MaxUserId(SubSeq(users, 1, Len(users) - 1))
         THEN users[Len(users)].user_id
         ELSE MaxUserId(SubSeq(users, 1, Len(users) - 1))

\* the largest user_id taken once more
LastUserId(users) == MaxUserId(users)

\* the user_id register gives a new user
NextUserId(users) == MaxUserId(users) + 1

\* User.to_dict(), by the fields the model follows, and
\* Portfolio(user_id).to_dict()
UserData(user_id, username) == [user_id |-> user_id, username |-> username]
EmptyPortfolio(user_id) == [user_id |-> user_id, wallets |-> << >>]

\* save_user and save_portfolio, called by one thread with no other
\* between their load_data and their save_data
save_user(d, user_data) ==
    [LoadUsers(d) EXCEPT !.users = Append(get_all_users(d), user_data)]

save_portfolio(d, user_id, portfolio_data) ==
    [LoadPortfolios(d) EXCEPT
        !.portfolios = [k \in DOMAIN d.portfolios \cup {Str(user_id)} |->
                           IF k = Str(user_id) THEN portfolio_data ELSE d.portfolios[k]]]

\* the usernames and passwords of the register commands in the model
Usernames == {"alice", "bob", "carol", "dave"}
Passwords == {"", "123", "1234"}

\* register(username, password): a taken name and a short password raise
\* ValueError after get_user_by_username has loaded users.json
register(username, password) ==
    /\ db.register.status = "none"
    /\ \A t \in DbThreads : db.th[t].pc = "idle"
    /\ IF get_user_by_username(db, username) # << >> \/ Len(password) < 4
       THEN db' = [LoadUsers(db) EXCEPT
                      !.register = [status |-> "ValueError", username |-> username,
                                    password |-> password, user_id |-> 0]]
       ELSE /\ Len(get_all_users(db)) < MaxUsers
            /\ \E user_id \in { NextUserId(get_all_users(db)) } :
                  db' = [save_portfolio(save_user(db, UserData(user_id, username)),
                                        user_id, EmptyPortfolio(user_id))
                            EXCEPT !.register = [status |-> "ok", username |-> username,
                                                 password |-> password,
                                                 user_id |-> user_id]]
    /\ UNCHANGED <<now, ticks, file_vars, config_vars, service_vars, ncycles, thread_vars,
                   reader_vars, pm_vars, sched, retry>>

\* the command is over
register_return ==
    /\ db.register.status # "none"
    /\ db' = [db EXCEPT !.register = NoRegister]
    /\ UNCHANGED <<now, ticks, file_vars, config_vars, service_vars, ncycles, thread_vars,
                   reader_vars, pm_vars, sched, retry>>

NextUsers ==
    \/ \E username \in Usernames, password \in Passwords : register(username, password)
    \/ register_return

SpecUsers == Init /\ [][NextUsers]_vars

\* Two threads that call save_portfolio and save_user.  load_data and
\* save_data each hold self._lock for their own body; save_portfolio and
\* save_user hold no lock between the two.

\* the user and the portfolio a thread saves: thread t1 those of user 1,
\* thread t2 those of user 2
UserOf(t) == IF t = "t1" THEN 1 ELSE 2
NameOf(t) == IF t = "t1" THEN "alice" ELSE "bob"
WalletsSaved == {<< >>, ("BTC" :> 1)}

\* save_portfolio, its load_data
save_portfolio_load(t, portfolio_data) ==
    /\ db.th[t].pc = "idle"
    /\ db' = [LoadPortfolios(db) EXCEPT
                 !.th[t] = [NoDbCall EXCEPT !.pc = "loaded", !.op = "save_portfolio",
                                            !.key = Str(portfolio_data.user_id),
                                            !.portfolios = db.portfolios,
                                            !.portfolio_data = portfolio_data]]
    /\ UNCHANGED <<now, ticks, file_vars, config_vars, service_vars, ncycles, thread_vars,
                   reader_vars, pm_vars, sched, retry>>

\* save_portfolio, its assignment and its save_data
save_portfolio_save(t) ==
    /\ db.th[t].pc = "loaded" /\ db.th[t].op = "save_portfolio"
    /\ db' = [db EXCEPT
                 !.portfolios = [k \in DOMAIN db.th[t].portfolios \cup {db.th[t].key} |->
                                    IF k = db.th[t].key THEN db.th[t].portfolio_data
                                    ELSE db.th[t].portfolios[k]],
                 !.th[t].pc = "done"]
    /\ UNCHANGED <<now, ticks, file_vars, config_vars, service_vars, ncycles, thread_vars,
                   reader_vars, pm_vars, sched, retry>>

\* save_user, its get_all_users: for a missing users.json load_data writes
\* [] and returns {}, whose append raises AttributeError
save_user_load(t, user_data) ==
    /\ db.th[t].pc = "idle"
    /\ Len(db.users) < MaxUsers
    /\ db' = [LoadUsers(db) EXCEPT
                 !.th[t] = [NoDbCall EXCEPT
                              !.pc = IF db.users_exists THEN "loaded" ELSE "raised",
                              !.op = "save_user",
                              !.users = db.users,
                              !.user_data = user_data]]
    /\ UNCHANGED <<now, ticks, file_vars, config_vars, service_vars, ncycles, thread_vars,
                   reader_vars, pm_vars, sched, retry>>

\* save_user, its append and its save_data
save_user_save(t) ==
    /\ db.th[t].pc = "loaded" /\ db.th[t].op = "save_user"
    /\ db' = [db EXCEPT !.users = Append(db.th[t].users, db.th[t].user_data),
                        !.th[t].pc = "done"]
    /\ UNCHANGED <<now, ticks, file_vars, config_vars, service_vars, ncycles, thread_vars,
                   reader_vars, pm_vars, sched, retry>>

\* the call of thread t is over
db_call_return(t) ==
    /\ db.th[t].pc \in {"done", "raised"}
    /\ db' = [db EXCEPT !.th[t] = NoDbCall]
    /\ UNCHANGED <<now, ticks, file_vars, config_vars, service_vars, ncycles, thread_vars,
                   reader_vars, pm_vars, sched, retry>>

NextDb ==
    \E t \in DbThreads :
       \/ \E wallets_saved \in WalletsSaved :
             save_portfolio_load(t, [user_id |-> UserOf(t), wallets |-> wallets_saved])
       \/ save_portfolio_save(t)
       \/ save_user_load(t, UserData(UserOf(t), NameOf(t)))
       \/ save_user_save(t)
       \/ db_call_return(t)

SpecDb == Init /\ [][NextDb]_vars

\* the program as it is configured when the environment sets no API key
InitConv == Init /\ EXCHANGERATE_API_KEY = "demo_key_for_testing"

SpecConv == InitConv /\ [][NextConv]_vars

-----------------------------------------------------------------------------
(* RatesStorage.get_rate over the snapshots save_current_rates can leave *)

\* the rate maps save_current_rates is given in the model: any of three
\* keys, each with a rate of 0, 2 or 1/2
StoredKeys == {"EUR_USD", "USD_EUR", "BTC_USD"}
StoredValues == {<<0, 1>>, <<2, 1>>, <<1, 2>>}
StoredRateMaps == UNION { [keys -> StoredValues] : keys \in SUBSET StoredKeys }

\* the currencies get_rate is asked about
RateCodes == {"USD", "EUR", "BTC"}

\* rates.json holds the snapshot of some rate map, saved at time 0
InitRate ==
    /\ now = 0
    /\ ticks = 0
    /\ \E rates \in StoredRateMaps :
          fs = [p \in Paths |-> IF p = RATES_FILE
                                THEN CompleteFile(SnapshotData(rates, 0, 0))
                                ELSE NoFile]
    /\ rd_seen = {}
    /\ rates_writer = "RatesStorage"
    /\ ncycles = 0
    /\ pc = [t \in Threads |-> "idle"]
    /\ cycle = [t \in Threads |-> 0]
    /\ all_rates = [t \in Threads |-> NoPairs]
    /\ buf = [t \in Threads |-> EmptyObject]
    /\ target = [t \in Threads |-> RATES_FILE]
    /\ cache_result = [t \in Threads |-> NoResult]
    /\ history_result = [t \in Threads |-> << >>]
    /\ statistics = [t \in Threads |-> NoStatistics]
    /\ EXCHANGERATE_API_KEY = "demo_key_for_testing"
    /\ clients = create_api_client("all", EXCHANGERATE_API_KEY)
    /\ rd_pc = "idle"
    /\ rd_result = EmptySnapshot
    /\ pm_cache = NoPairs
    /\ pm_cache_ts = NoTime
    /\ ger = NoCall
    /\ gr = NoAnswers
    /\ wallets = NoWallets
    /\ trade = NoTrade
    /\ call = NoQuery
    /\ req = NoRequest
    /\ sched = NoScheduler
    /\ db = NoDatabase
    /\ retry = NoRetry

\* a call of RatesStorage.get_rate(from, to); to = NoCurrency leaves
\* to_currency out
storage_get_rate(from, to) ==
    /\ Cardinality(DOMAIN gr) < MaxAnswers
    /\ <<from, to>> \notin DOMAIN gr
    /\ gr' = gr @@ (<<from, to>> :> get_rate(fs, from, to))
    /\ UNCHANGED <<now, ticks, fs, rates_writer, rd_seen, config_vars, infra_vars, service_vars, ncycles, thread_vars,
                   reader_vars, pm_vars>>

\* the callers are done with the results
storage_get_rate_return ==
    /\ gr # NoAnswers
    /\ gr' = NoAnswers
    /\ UNCHANGED <<now, ticks, fs, rates_writer, rd_seen, config_vars, infra_vars, service_vars, ncycles, thread_vars,
                   reader_vars, pm_vars>>

NextRate ==
    \/ \E from \in RateCodes, to \in RateCodes \cup {NoCurrency} : storage_get_rate(from, to)
    \/ storage_get_rate_return

SpecRate == InitRate /\ [][NextRate]_vars

-----------------------------------------------------------------------------
(* buy_currency, sell_currency and show_portfolio (core/usecases.py) for    *)
(* the logged-in user, over the rates a rates.json can hold                 *)

\* a + b for fractions in lowest terms
RatAdd(a, b) == Rat(a[1] * b[2] + b[1] * a[2], a[2] * b[2])

\* an amount of money as a fraction
Amount(n) == <<n, 1>>

Value(v) == [kind |-> "value", value |-> v]
ValueError(kind) == [kind |-> kind, value |-> <<0, 1>>]

\* amount * rate, and amount / rate with its ZeroDivisionError
Times(amount, rate) == Value(RatMul(amount, rate))
Over(amount, rate) ==
    IF rate[1] = 0 THEN ValueError("ZeroDivisionError") ELSE Value(RatDiv(amount, rate))

\* _convert_via_usd, its second half: usd_amount into to_currency
ConvertFromUsd(usd_amount, to, rates) ==
    IF PairKey("USD", to) \in DOMAIN rates
    THEN Times(usd_amount, rates[PairKey("USD", to)].rate)
    ELSE IF PairKey(to, "USD") \in DOMAIN rates
         THEN Over(usd_amount, rates[PairKey(to, "USD")].rate)
    ELSE Value(<<0, 1>>)

\* PortfolioManager._convert_via_usd
pm_convert_via_usd(amount, from, to, rates) ==
    IF PairKey(from, "USD") \in DOMAIN rates
    THEN ConvertFromUsd(RatMul(amount, rates[PairKey(from, "USD")].rate), to, rates)
    ELSE IF PairKey("USD", from) \in DOMAIN rates
         THEN IF rates[PairKey("USD", from)].rate[1] = 0
              THEN ValueError("ZeroDivisionError")
              ELSE ConvertFromUsd(RatDiv(amount, rates[PairKey("USD", from)].rate), to, rates)
    ELSE Value(<<0, 1>>)

\* buy_currency and sell_currency: cost_in_usd, revenue_in_usd.  g is what
\* _get_exchange_rates() did; any exception in there gives 0.0
UsdValue(amount, currency_code, g) ==
    IF g.raised THEN <<0, 1>>
    ELSE IF pm_convert_via_usd(Amount(amount), currency_code, "USD", g.rates).kind = "value"
         THEN pm_convert_via_usd(Amount(amount), currency_code, "USD", g.rates).value
    ELSE <<0, 1>>

\* show_portfolio: value_in_base of one wallet
ValueInBase(balance, currency_code, base_currency, rates) ==
    IF currency_code = base_currency THEN Value(Amount(balance))
    ELSE IF PairKey(currency_code, base_currency) \in DOMAIN rates
         THEN Times(Amount(balance), rates[PairKey(currency_code, base_currency)].rate)
    ELSE IF PairKey(base_currency, currency_code) \in DOMAIN rates
         THEN Over(Amount(balance), rates[PairKey(base_currency, currency_code)].rate)
    ELSE pm_convert_via_usd(Amount(balance), currency_code, base_currency, rates)

\* the currencies the model's user trades, in the order of portfolio.wallets
WalletOrder == <<"EUR", "GBP">>
WalletCodes == {WalletOrder[i] : i \in 1..Len(WalletOrder)}

\* the amounts the model's user asks for
Amounts == {0, 1}

\* show_portfolio: total_value over the first n wallets of WalletOrder
RECURSIVE TotalValue(_, _, _, _)
TotalValue(n, held, base_currency, rates) ==
    IF n = 0 THEN <<0, 1>>
    ELSE IF WalletOrder[n] \in DOMAIN held
         THEN RatAdd(TotalValue(n - 1, held, base_currency, rates),
                     ValueInBase(held[WalletOrder[n]], WalletOrder[n], base_currency, rates).value)
    ELSE TotalValue(n - 1, held, base_currency, rates)

\* the states the rates are read in, and how the clock and rates.json move
RatesRead(g, drift) ==
    /\ SetFiles(g.st.files, "DatabaseManager")
    /\ pm_cache' = g.st.cache
    /\ pm_cache_ts' = g.st.cache_ts
    /\ now' = now + drift
    /\ ticks' = ticks + drift

CommandLineIdle ==
    /\ \A t \in Threads : pc[t] = "idle"
    /\ ger.status = "none"
    /\ trade.status = "none"

\* float("nan"), which --amount (type=float) accepts: a float that no
\* comparison holds of
NaN == 0 - 999

\* a <= b, a > b, a + b and a - b of floats
FloatLessEq(a, b) == a # NaN /\ b # NaN /\ a <= b
FloatGreater(a, b) == a # NaN /\ b # NaN /\ a > b
FloatAdd(a, b) == IF a = NaN \/ b = NaN THEN NaN ELSE a + b
FloatSub(a, b) == IF a = NaN \/ b = NaN THEN NaN ELSE a - b

\* Wallet.deposit and Wallet.withdraw: the new balance; their ValueErrors
\* (amount <= 0, amount > balance, a new balance < 0) are for amounts that
\* buy_currency and sell_currency have turned away before
Deposit(balance, amount) == FloatAdd(balance, amount)
Withdraw(balance, amount) == FloatSub(balance, amount)

\* cost_in_usd and revenue_in_usd: the amount in USD, 0.0 when the rates or
\* the conversion raise
AmountInUsd(amount, currency_code, g) ==
    IF amount = NaN
    THEN IF ~g.raised
            /\ pm_convert_via_usd(Amount(1), currency_code, "USD", g.rates).kind = "value"
         THEN <<NaN, 1>>
         ELSE <<0, 1>>
    ELSE UsdValue(amount, currency_code, g)

\* buy_currency(currency_code, amount)
buy_currency(currency_code, amount) ==
    /\ CommandLineIdle
    /\ IF currency_code \notin RegistryCodes \/ FloatLessEq(amount, 0)
       THEN /\ trade' = [NoTrade EXCEPT
                            !.op = "buy",
                            !.status = IF currency_code \notin RegistryCodes
                                       THEN "CurrencyNotFoundError"
                                       ELSE "InvalidAmountError",
                            !.currency = currency_code, !.amount = amount]
            /\ UNCHANGED <<now, ticks, file_vars, pm_cache, pm_cache_ts, wallets>>
       ELSE /\ \/ FloatLessEq(Deposit(IF currency_code \in DOMAIN wallets
                                      THEN wallets[currency_code] ELSE 0, amount),
                               MaxBalance)
               \/ amount = NaN
            /\ wallets' = IF currency_code \in DOMAIN wallets
                          THEN [wallets EXCEPT ![currency_code] = Deposit(@, amount)]
                          ELSE wallets @@ (currency_code :> Deposit(0, amount))
            /\ \E drift \in Drifts, ok \in BOOLEAN :
               \E st \in { CallState } :
               \E g \in { pm_get_exchange_rates(st, now, drift, FALSE, ok) } :
                  /\ RatesRead(g, drift)
                  /\ trade' = [op |-> "buy", status |-> "ok", currency |-> currency_code,
                               amount |-> amount,
                               value |-> AmountInUsd(amount, currency_code, g),
                               values |-> << >>, rates |-> g.rates]
    /\ UNCHANGED <<config_vars, infra_vars, service_vars, ncycles, thread_vars, reader_vars, ger>>

\* sell_currency(currency_code, amount)
sell_currency(currency_code, amount) ==
    /\ CommandLineIdle
    /\ IF \/ currency_code \notin RegistryCodes
          \/ FloatLessEq(amount, 0)
          \/ currency_code \notin DOMAIN wallets
          \/ FloatGreater(amount, wallets[currency_code])
       THEN /\ trade' = [NoTrade EXCEPT
                            !.op = "sell",
                            !.status = IF currency_code \notin RegistryCodes
                                       THEN "CurrencyNotFoundError"
                                       ELSE IF FloatLessEq(amount, 0) THEN "InvalidAmountError"
                                       ELSE IF currency_code \notin DOMAIN wallets
                                            THEN "WalletNotFoundError"
                                       ELSE "InsufficientFundsError",
                            !.currency = currency_code, !.amount = amount]
            /\ UNCHANGED <<now, ticks, file_vars, pm_cache, pm_cache_ts, wallets>>
       ELSE /\ wallets' = [wallets EXCEPT ![currency_code] = Withdraw(@, amount)]
            /\ \E drift \in Drifts, ok \in BOOLEAN :
               \E st \in { CallState } :
               \E g \in { pm_get_exchange_rates(st, now, drift, FALSE, ok) } :
                  /\ RatesRead(g, drift)
                  /\ trade' = [op |-> "sell", status |-> "ok", currency |-> currency_code,
                               amount |-> amount,
                               value |-> AmountInUsd(amount, currency_code, g),
                               values |-> << >>, rates |-> g.rates]
    /\ UNCHANGED <<config_vars, infra_vars, service_vars, ncycles, thread_vars, reader_vars, ger>>

\* show_portfolio(base_currency): "currency" is the base currency, "values"
\* the value_in_base of each wallet and "value" the total; an error of
\* _get_exchange_rates or of a division leaves the call
show_portfolio(base_currency) ==
    /\ CommandLineIdle
    /\ \E drift \in Drifts, ok \in BOOLEAN :
       \E st \in { CallState } :
       \E g \in { pm_get_exchange_rates(st, now, drift, FALSE, ok) } :
       \E info \in { [c \in DOMAIN wallets |->
                         ValueInBase(wallets[c], c, base_currency, g.rates)] } :
          /\ RatesRead(g, drift)
          /\ trade' =
                IF g.raised
                THEN [NoTrade EXCEPT !.op = "show", !.status = "ApiRequestError",
                                     !.currency = base_currency]
                ELSE IF \E c \in DOMAIN info : info[c].kind # "value"
                THEN [NoTrade EXCEPT !.op = "show", !.status = "ZeroDivisionError",
                                     !.currency = base_currency, !.rates = g.rates]
                ELSE [op |-> "show", status |-> "ok", currency |-> base_currency,
                      amount |-> 0,
                      value |-> TotalValue(Len(WalletOrder), wallets, base_currency, g.rates),
                      values |-> [c \in DOMAIN info |-> info[c].value],
                      rates |-> g.rates]
    /\ UNCHANGED <<config_vars, infra_vars, service_vars, ncycles, thread_vars, reader_vars, ger, wallets>>

\* the caller of buy_currency, sell_currency or show_portfolio is done with
\* the result
trade_return ==
    /\ trade.status # "none"
    /\ trade' = NoTrade
    /\ UNCHANGED <<now, ticks, file_vars, config_vars, infra_vars, service_vars, ncycles, thread_vars, reader_vars,
                   pm_cache, pm_cache_ts, ger, wallets>>

\* the "rates" a rates.json can hold in the model: EUR_USD and USD_EUR, each
\* absent or with a rate of 0 or 2
DbRateMaps ==
    { rates \in StoredRateMaps :
        /\ DOMAIN rates \subseteq {"EUR_USD", "USD_EUR"}
        /\ \A k \in DOMAIN rates : rates[k] \in {<<0, 1>>, <<2, 1>>} }

\* a rates.json in the layout DatabaseManager and PortfolioManager read
DbData(rates, clock) ==
    JsonObject({"last_refresh", "source", "rates"}, clock, NoPairs,
               [k \in DOMAIN rates |-> [rate |-> rates[k], updated_at |-> clock]], 0)

\* rates.json holds some rates, refreshed at time 0; the user has no wallet
InitPM ==
    /\ now = 0
    /\ ticks = 0
    /\ \E rates \in DbRateMaps :
          fs = [p \in Paths |-> IF p = RATES_FILE
                                THEN CompleteFile(DbData(rates, 0))
                                ELSE NoFile]
    /\ rd_seen = {}
    /\ rates_writer = "DatabaseManager"
    /\ ncycles = 0
    /\ pc = [t \in Threads |-> "idle"]
    /\ cycle = [t \in Threads |-> 0]
    /\ all_rates = [t \in Threads |-> NoPairs]
    /\ buf = [t \in Threads |-> EmptyObject]
    /\ target = [t \in Threads |-> RATES_FILE]
    /\ cache_result = [t \in Threads |-> NoResult]
    /\ history_result = [t \in Threads |-> << >>]
    /\ statistics = [t \in Threads |-> NoStatistics]
    /\ EXCHANGERATE_API_KEY = "demo_key_for_testing"
    /\ clients = create_api_client("all", EXCHANGERATE_API_KEY)
    /\ rd_pc = "idle"
    /\ rd_result = EmptySnapshot
    /\ pm_cache = NoPairs
    /\ pm_cache_ts = NoTime
    /\ ger = NoCall
    /\ gr = NoAnswers
    /\ wallets = NoWallets
    /\ trade = NoTrade
    /\ call = NoQuery
    /\ req = NoRequest
    /\ sched = NoScheduler
    /\ db = NoDatabase
    /\ retry = NoRetry

NextPM ==
    \/ \E from \in QueryCodes, to \in QueryCodes : get_exchange_rate(from, to)
    \/ get_exchange_rate_return
    \/ \E currency_code \in WalletCodes, amount \in Amounts : buy_currency(currency_code, amount)
    \/ \E currency_code \in WalletCodes, amount \in Amounts : sell_currency(currency_code, amount)
    \/ \E base_currency \in {"USD", "EUR"} : show_portfolio(base_currency)
    \/ trade_return

SpecPM == InitPM /\ [][NextPM]_vars

\* the --currency and --amount values of the buy and sell commands: a code
\* outside the registry, and any float
TradeCodes == WalletCodes \cup {"XYZ"}
TradeAmounts == {0 - 1, 0, 1, NaN}

\* a logged-in user's buy and sell commands
NextTrade ==
    \/ \E currency_code \in TradeCodes, amount \in TradeAmounts :
          buy_currency(currency_code, amount)
    \/ \E currency_code \in TradeCodes, amount \in TradeAmounts :
          sell_currency(currency_code, amount)
    \/ trade_return

SpecTrade == InitPM /\ [][NextTrade]_vars

-----------------------------------------------------------------------------
(* Properties of the rate store under Spec and SpecRead *)

\* the steps of thread t inside _atomic_write
InAtomicWrite(t) == pc[t] \in {"mkstemp", "dump", "replace"}

WholeContent(f) ==
    IF ~f.exists THEN {EmptySnapshot}
    ELSE IF f.complete THEN {f.data}
    ELSE {}

\* C2: what load_current_rates returns is the whole content that rates.json
\* had at some moment of the call (the snapshot before or the snapshot after a
\* concurrent save_current_rates), never the outcome of a partial file.
C2_ReaderSeesWholeSnapshot ==
    rd_pc = "done" => \E f \in rd_seen : rd_result \in WholeContent(f)

\* C2, its case: rates.json was replaced while the reader was inside
\* _load_json, and the reader got the new snapshot
C2_Witness ==
    /\ rd_pc = "done"
    /\ CompleteFile(InitialSnapshot) \in rd_seen
    /\ rd_result.cycle > 0
    /\ CompleteFile(rd_result) \in rd_seen

\* the records of the history file
HistoryOf(files) ==
    { _load_history(files).list[i] : i \in 1..Len(_load_history(files).list) }

\* C3: no step removes a record from the history file: whatever the
\* interleaving of two save_to_history calls, the records both appended stay.
C3_NoHistoryRecordLost ==
    [][HistoryOf(fs) \subseteq HistoryOf(fs')]_vars

\* C4: when run_update has written both the snapshot and the history, every
\* history record of the cycle carries the snapshot's last_refresh, which is
\* also every pair's updated_at.
C4_SingleTimestamp ==
    \A t \in Threads :
        (pc[t] = "done" /\ cache_result[t] # NoResult)
        => /\ \A k \in DOMAIN cache_result[t].pairs :
                 cache_result[t].pairs[k].updated_at = cache_result[t].last_refresh
           /\ \A i \in 1..Len(history_result[t]) :
                 history_result[t][i].timestamp = cache_result[t].last_refresh

\* C5: when a run_update call has ended, by a return or by an error, its
\* rates are in the history only if its snapshot write succeeded, and
\* rates.json holds its snapshot only if the history holds its records.
C5_SnapshotAndHistoryTogether ==
    \A t \in Threads :
        (pc[t] \in {"done", "raised"} /\ cycle[t] > 0)
        => /\ (\E r \in HistoryOf(fs) : r.cycle = cycle[t])
                 => cache_result[t] # NoResult
           /\ load_current_rates(fs).cycle = cycle[t]
                 => \E r \in HistoryOf(fs) : r.cycle = cycle[t]

-----------------------------------------------------------------------------
(* Properties of the conversion engine under SpecConv *)

\* C6: in the snapshot a reader loads, every pair record's updated_at is the
\* snapshot's last_refresh.
C6_SnapshotOfOneCycle ==
    LET snapshot == load_current_rates(fs)
    IN  /\ \A k \in DOMAIN GetPairs(snapshot) :
              GetPairs(snapshot)[k].updated_at = GetLastRefresh(snapshot)
        /\ \A k \in DOMAIN GetRates(snapshot) :
              GetRates(snapshot)[k].updated_at = GetLastRefresh(snapshot)

\* C7: rates.json is created and replaced by RatesStorage only.
C7_OnlyStorageWritesSnapshot ==
    rates_writer \in {"none", "RatesStorage"}

\* C8: when rates.json holds the fresh snapshot of a run_update with pair
\* A_B at rate r, get_exchange_rate(A, B) returns r.
C8_RateFromSnapshot ==
    (/\ ger.status # "none"
     /\ ger.fresh
     /\ PairKey(ger.from, ger.to) \in DOMAIN ger.stored)
    => /\ ger.status = "ok"
       /\ ger.rate = ger.stored[PairKey(ger.from, ger.to)].rate

\* C9: when the rates get_exchange_rate(FROM, TO) resolves from hold neither
\* FROM_TO nor TO_FROM but FROM_USD = p and TO_USD = q, it returns p / q.
C9_TwoHopRate ==
    (/\ ger.status # "none"
     /\ PairKey(ger.from, ger.to) \notin DOMAIN ger.rates
     /\ PairKey(ger.to, ger.from) \notin DOMAIN ger.rates
     /\ PairKey(ger.from, BASE_CURRENCY) \in DOMAIN ger.rates
     /\ PairKey(ger.to, BASE_CURRENCY) \in DOMAIN ger.rates)
    => /\ ger.status = "ok"
       /\ ger.rate = RatDiv(ger.rates[PairKey(ger.from, BASE_CURRENCY)].rate,
                            ger.rates[PairKey(ger.to, BASE_CURRENCY)].rate)

\* C10: get_exchange_rate(x, x) returns rate 1 for every currency x of the
\* registry, whatever rates.json holds.
C10_IdentityRate ==
    (ger.status # "none" /\ ger.from = ger.to /\ ger.from \in RegistryCodes)
    => ger.status = "ok" /\ ger.rate = One

-----------------------------------------------------------------------------
(* Properties of RatesStorage.get_rate under SpecRate *)

\* the pairs of the snapshot in rates.json
StoredPairs == GetPairs(load_current_rates(fs))

\* C11: get_rate(from, to) is 1 when from = to; else the stored rate of
\* FROM_TO when that key is stored, whatever TO_FROM holds; else the
\* reciprocal of the rate of TO_FROM when that key is stored (None when that
\* rate is 0); else None.  A left-out to_currency is the base currency.
C11_GetRateOrder ==
    \A q \in DOMAIN gr :
        LET from == q[1]
            to == IF q[2] = NoCurrency THEN "USD" ELSE q[2]
            direct == PairKey(from, to)
            reverse == PairKey(to, from)
        IN  IF from = to THEN gr[q] = Some(One)
            ELSE IF direct \in DOMAIN StoredPairs
                 THEN gr[q] = Some(StoredPairs[direct].rate)
            ELSE IF reverse \in DOMAIN StoredPairs /\ StoredPairs[reverse].rate[1] # 0
                 THEN /\ gr[q].kind = "rate"
                      /\ RatMul(gr[q].rate, StoredPairs[reverse].rate) = One
            ELSE gr[q] = None

\* C11, its cases: with both directions stored and not reciprocal, get_rate
\* has answered one query; and it has answered another from the reverse pair
C11_Witness ==
    /\ {"EUR_USD", "USD_EUR"} \subseteq DOMAIN StoredPairs
    /\ "USD_BTC" \notin DOMAIN StoredPairs
    /\ "BTC_USD" \in DOMAIN StoredPairs
    /\ StoredPairs["EUR_USD"].rate = <<2, 1>>
    /\ StoredPairs["USD_EUR"].rate = <<2, 1>>
    /\ StoredPairs["BTC_USD"].rate = <<2, 1>>
    /\ {<<"EUR", "USD">>, <<"USD", "BTC">>} \subseteq DOMAIN gr
    /\ gr[<<"EUR", "USD">>] = Some(<<2, 1>>)
    /\ gr[<<"USD", "BTC">>] = Some(<<1, 2>>)

\* C12: when A_B or B_A is stored, get_rate(a, b) * get_rate(b, a) = 1.
C12_ReciprocalRates ==
    \A a \in RateCodes, b \in RateCodes :
        (/\ <<a, b>> \in DOMAIN gr
         /\ <<b, a>> \in DOMAIN gr
         /\ (PairKey(a, b) \in DOMAIN StoredPairs \/ PairKey(b, a) \in DOMAIN StoredPairs))
        => /\ gr[<<a, b>>].kind = "rate"
           /\ gr[<<b, a>>].kind = "rate"
           /\ RatMul(gr[<<a, b>>].rate, gr[<<b, a>>].rate) = One

-----------------------------------------------------------------------------
(* Properties of the portfolio operations under SpecPM *)

\* C13: no rate resolution ends in a ZeroDivisionError: not in
\* get_exchange_rate (and the _get_rate_via_usd calls it makes), and not in
\* the conversions of show_portfolio; a zero rate gives "unavailable".
C13_ZeroRateIsUnavailable ==
    /\ ger.status # "ZeroDivisionError"
    /\ trade.status # "ZeroDivisionError"

\* the rates hold no way from currency from to currency to: no direct pair,
\* no reverse pair, and one of the two has no pair with USD
NoPath(from, to, rates) ==
    /\ from # to
    /\ PairKey(from, to) \notin DOMAIN rates
    /\ PairKey(to, from) \notin DOMAIN rates
    /\ \/ from # "USD" /\ PairKey(from, "USD") \notin DOMAIN rates
                       /\ PairKey("USD", from) \notin DOMAIN rates
       \/ to # "USD" /\ PairKey(to, "USD") \notin DOMAIN rates
                     /\ PairKey("USD", to) \notin DOMAIN rates

\* C14: buy_currency and sell_currency do not return a cost or revenue, and
\* show_portfolio does not return a wallet's value, for a currency the rates
\* hold no path to USD (to the base currency) for.
C14_NoValueWithoutPath ==
    /\ (trade.op \in {"buy", "sell"} /\ trade.status = "ok")
          => ~NoPath(trade.currency, "USD", trade.rates)
    /\ (trade.op = "show" /\ trade.status = "ok")
          => \A c \in DOMAIN trade.values : ~NoPath(c, trade.currency, trade.rates)

\* C15: one get_exchange_rate call refreshes the rates at most once and
\* searches the rates for the pair at most twice (the first resolution and
\* one more after the refresh).
C15_OneRefreshOneRetry ==
    ger.status # "none" => ger.refreshes <= 1 /\ ger.lookups <= 2

-----------------------------------------------------------------------------
(* run_update's outcome *)

\* thread t is in a run_update call that is past its fetch loop
PastFetch(t) == cycle[t] > 0 /\ pc[t] \notin {"idle", "run_update"}

\* thread t's run_update call is about to return its statistics
Returning(t) == cycle[t] > 0 /\ pc[t] = "done"

\* the positions of update_clients at which the source succeeded with key k
Writers(st, k) ==
    { i \in 1..Len(st.update_clients) :
        /\ st.update_clients[i] \in DOMAIN st.sources
        /\ st.sources[st.update_clients[i]].status = "success"
        /\ k \in DOMAIN st.sources[st.update_clients[i]].fetched }

\* the keys the sources of st succeeded with
MergedKeys(st) == UNION { DOMAIN st.sources[n].fetched : n \in DOMAIN st.sources }

\* the sources of st that failed
Failed(st) == { n \in DOMAIN st.sources : st.sources[n].status = "error" }

\* C16: run_update calls fetch_rates of every client once, in list order,
\* whatever the earlier clients did; every client has an entry in sources
\* with status "success" or "error" and its rate count (0 on error); the
\* rates of every succeeding source are in all_rates.
C16_EveryClientQueried ==
    \A t \in Threads :
        PastFetch(t) =>
            /\ statistics[t].queried = statistics[t].update_clients
            /\ DOMAIN statistics[t].sources =
                  { statistics[t].update_clients[i] :
                      i \in 1..Len(statistics[t].update_clients) }
            /\ \A n \in DOMAIN statistics[t].sources :
                  LET entry == statistics[t].sources[n]
                  IN  /\ entry.status \in {"success", "error"}
                      /\ entry.status = "error" => entry.rates_count = 0
                      /\ entry.status = "success" =>
                            /\ entry.rates_count = Cardinality(DOMAIN entry.fetched)
                            /\ DOMAIN entry.fetched \subseteq DOMAIN all_rates[t]

\* the first client raised, the second one was queried and its rate merged
C16_Witness ==
    \E t \in Threads :
        /\ Returning(t)
        /\ statistics[t].update_clients = <<"CoinGecko", "ExchangeRate-API">>
        /\ statistics[t].sources["CoinGecko"].status = "error"
        /\ statistics[t].sources["ExchangeRate-API"].status = "success"
        /\ statistics[t].sources["ExchangeRate-API"].rates_count = 1
        /\ "EUR_USD" \in DOMAIN all_rates[t]

\* C17: a key that several sources report has, in all_rates, the rate of the
\* last of them in list order.
C17_LastWriterWins ==
    \A t \in Threads :
        PastFetch(t) =>
            \A k \in DOMAIN all_rates[t] :
                \E i \in Writers(statistics[t], k) :
                    /\ \A j \in Writers(statistics[t], k) : j <= i
                    /\ all_rates[t][k] =
                          statistics[t].sources[statistics[t].update_clients[i]].fetched[k]

\* CoinGecko and MockAPI both reported BTC_USD; MockAPI's rate is the merged one
C17_Witness ==
    \E t \in Threads :
        /\ PastFetch(t)
        /\ Cardinality(Writers(statistics[t], "BTC_USD")) = 2
        /\ statistics[t].sources["CoinGecko"].fetched["BTC_USD"] = <<60000, 1>>
        /\ all_rates[t]["BTC_USD"] = _mock_rates["BTC_USD"]

\* C18: when every source failed or returned no rate, run_update returns its
\* statistics with success false and total_rates 0, and the call has written
\* neither the snapshot nor the history (nor a temporary file).
C18_NothingFetchedNothingWritten ==
    \A t \in Threads :
        (PastFetch(t) /\ \A n \in DOMAIN statistics[t].sources :
                            statistics[t].sources[n].rates_count = 0) =>
            /\ pc[t] = "done"
            /\ statistics[t].success = FALSE
            /\ statistics[t].total_rates = 0
            /\ fs[TempName(t)] = NoFile
            /\ fs[RATES_FILE].data.cycle # cycle[t]
            /\ \A i \in 1..Len(fs[HISTORY_FILE].data.list) :
                  fs[HISTORY_FILE].data.list[i].cycle # cycle[t]

\* both sources raised
C18_Witness ==
    \E t \in Threads :
        /\ Returning(t)
        /\ Failed(statistics[t]) = {"CoinGecko", "ExchangeRate-API"}
        /\ statistics[t].success = FALSE

\* C19: in the statistics run_update returns, success says whether a rate was
\* merged, total_rates is the number of distinct keys merged, and errors has
\* one entry for each source that failed and no other.
C19_OutcomeCounts ==
    \A t \in Threads :
        Returning(t) =>
            /\ statistics[t].success <=> MergedKeys(statistics[t]) # {}
            /\ statistics[t].total_rates = Cardinality(MergedKeys(statistics[t]))
            /\ Len(statistics[t].errors) = Cardinality(Failed(statistics[t]))
            /\ \A n \in Failed(statistics[t]) :
                  \E i \in 1..Len(statistics[t].errors) : statistics[t].errors[i] = n

\* two sources reported seven rates in all, six of them distinct
C19_Witness ==
    \E t \in Threads :
        /\ Returning(t)
        /\ statistics[t].update_clients = <<"CoinGecko", "MockAPI">>
        /\ statistics[t].sources["CoinGecko"].rates_count = 1
        /\ statistics[t].sources["MockAPI"].rates_count = 6
        /\ statistics[t].total_rates = 6
        /\ statistics[t].success

\* C20: a run_update call whose snapshot or history write fails still ends
\* by returning its statistics, the failure among its errors: the IOError of
\* the write never leaves run_update.
C20_WriteFailureInOutcome ==
    \A t \in Threads : cycle[t] > 0 => pc[t] # "raised"

-----------------------------------------------------------------------------
(* The cache and the history file *)

\* the snapshot on disk is whole, has a refresh time, and is no older than
\* the TTL
SnapshotWithinTTL ==
    /\ fs[RATES_FILE].exists
    /\ fs[RATES_FILE].complete
    /\ "last_refresh" \in fs[RATES_FILE].data.fields
    /\ fs[RATES_FILE].data.last_refresh \notin {NoTime, BadTime}
    /\ now - fs[RATES_FILE].data.last_refresh <= 300

\* C21: update_if_stale starts a refresh cycle exactly when the cache is not
\* fresh; on a fresh cache it returns having queried no source and written no
\* file.  force_update starts a cycle whatever the cache's age.
C21_RefreshIffStale ==
    [][ /\ (pc["bg"] = "idle" /\ pc'["bg"] # "idle") =>
              IF SnapshotWithinTTL
              THEN /\ pc'["bg"] = "done"
                   /\ cycle'["bg"] = 0
                   /\ statistics'["bg"] = NoStatistics
                   /\ fs' = fs
              ELSE /\ pc'["bg"] = "run_update"
                   /\ cycle'["bg"] > 0
        /\ (pc["bg"] = "done" /\ cycle["bg"] = 0 /\ pc'["bg"] # "done") =>
              /\ pc'["bg"] = "idle"
              /\ fs' = fs
        /\ (pc["fg"] = "idle" /\ pc'["fg"] # "idle") =>
              /\ pc'["fg"] = "run_update"
              /\ cycle'["fg"] > 0 ]_vars

\* update_if_stale returned at once on a snapshot exactly CACHE_TTL_SECONDS
\* old, which a forced cycle had written while the one before it was fresh
C21_Witness ==
    /\ pc["bg"] = "done"
    /\ cycle["bg"] = 0
    /\ SnapshotWithinTTL
    /\ now - fs[RATES_FILE].data.last_refresh = 300
    /\ fs[RATES_FILE].data.cycle = 1

\* C22: is_cache_fresh returns true exactly when a snapshot with a
\* parseable last_refresh exists and is at most CACHE_TTL_SECONDS old (300 s
\* is fresh, 301 s stale); on an absent or corrupt file and on a null or
\* unparseable last_refresh it returns false, and it never raises.
C22_FreshWithinTTL ==
    [][ (call.status = "none" /\ call'.op = "is_cache_fresh") =>
            /\ call'.status = "returned"
            /\ call'.fresh <=> SnapshotWithinTTL ]_vars

\* C23: load_current_rates never raises on a missing or malformed snapshot:
\* it returns the empty snapshot and leaves the file as it was.
C23_LoadNeverRaises ==
    [][ (call.status = "none" /\ call'.op = "load_current_rates") =>
            /\ call'.status = "returned"
            /\ fs' = fs
            /\ ~(fs[RATES_FILE].exists /\ fs[RATES_FILE].complete) =>
                   call'.value = EmptySnapshot ]_vars

\* C24: load_history returns the records newest first, only those whose
\* from_currency or to_currency is the currency asked for, and with a limit
\* n >= 0 the first min(n, count) of them, n = 0 included.
C24_HistoryLimit ==
    call.op = "load_history" =>
        LET matching == load_history(fs, NoLimit, call.currency)
        IN  /\ \A i \in 1..(Len(call.records) - 1) :
                  call.records[i].timestamp >= call.records[i + 1].timestamp
            /\ call.currency # "" =>
                  \A i \in 1..Len(call.records) :
                      \/ call.records[i].from_currency = Upper(call.currency)
                      \/ call.records[i].to_currency = Upper(call.currency)
            /\ call.limit # NoLimit =>
                  /\ Len(call.records) =
                        (IF call.limit < Len(matching) THEN call.limit ELSE Len(matching))
                  /\ call.records = SubSeq(matching, 1, Len(call.records))

\* thread t's save_current_rates call returns: its _atomic_write replaced
\* rates.json
SnapshotSaved(t) ==
    /\ pc[t] = "replace"
    /\ target[t] = RATES_FILE
    /\ pc'[t] = "save_to_history"

\* C25: save_current_rates(R) followed by load_current_rates() gives pairs
\* with exactly the keys of R, and pairs[k].rate equal to R[k] for each.
C25_RatesRoundTrip ==
    [][ \A t \in Threads :
            SnapshotSaved(t) =>
                LET pairs == GetPairs(load_current_rates(fs'))
                IN  /\ ~load_current_rates_raises(fs')
                    /\ DOMAIN pairs = DOMAIN all_rates[t]
                    /\ \A k \in DOMAIN pairs : pairs[k].rate = all_rates[t][k] ]_vars

\* the six mock rates were saved, and RUB_USD reads back as 0.01016
C25_Witness ==
    /\ pc["fg"] = "save_to_history"
    /\ all_rates["fg"] = _mock_rates
    /\ fs[RATES_FILE].data.cycle = cycle["fg"]
    /\ GetPairs(load_current_rates(fs))["RUB_USD"].rate = <<127, 12500>>

\* C26: a cycle that saves replaces the snapshot wholesale: when it has
\* completed, the snapshot's keys are the keys merged in that cycle, and a
\* pair of the snapshot before that no source reported in the cycle is gone.
C26_SnapshotReplaced ==
    (Returning("fg") /\ statistics["fg"].success) =>
        /\ DOMAIN GetPairs(load_current_rates(fs)) = MergedKeys(statistics["fg"])
        /\ \A k \in DOMAIN GetPairs(load_current_rates(fs)) :
              fs[RATES_FILE].data.pairs[k].updated_at = fs[RATES_FILE].data.last_refresh

\* the second cycle merged EUR_USD only; BTC_USD, which the first cycle had
\* saved, is not in the snapshot any more
C26_Witness ==
    /\ Returning("fg")
    /\ cycle["fg"] = 2
    /\ MergedKeys(statistics["fg"]) = {"EUR_USD"}
    /\ DOMAIN GetPairs(load_current_rates(fs)) = {"EUR_USD"}
    /\ \E i \in 1..Len(_load_history(fs).list) :
          /\ _load_history(fs).list[i].cycle = 1
          /\ _load_history(fs).list[i].from_currency = "BTC"

\* thread t's save_to_history call returns: its _atomic_write replaced the
\* history file
HistorySaved(t) ==
    /\ pc[t] = "replace"
    /\ target[t] = HISTORY_FILE
    /\ pc'[t] = "done"

\* C27: with save_to_history calls one at a time on a readable history file,
\* a call keeps every earlier record at its position and appends one record
\* per entry of rates; the file changes in no other way except through
\* clear_history.
C27_HistoryAppendOnly ==
    [][ LET old == _load_history(fs).list
            new == _load_history(fs').list
        IN  /\ HistorySaved("fg") =>
                  /\ Len(new) = Len(old) + Cardinality(DOMAIN all_rates["fg"])
                  /\ SubSeq(new, 1, Len(old)) = old
                  /\ \A i \in 1..Cardinality(DOMAIN all_rates["fg"]) :
                        /\ PairKey(new[Len(old) + i].from_currency,
                                   new[Len(old) + i].to_currency) = KeysOf(all_rates["fg"])[i]
                        /\ new[Len(old) + i].rate =
                              all_rates["fg"][KeysOf(all_rates["fg"])[i]]
            /\ new # old => HistorySaved("fg") \/ call'.op = "clear_history" ]_vars

\* a call appended two records to the two that were there
C27_Witness ==
    /\ Returning("fg")
    /\ Len(history_result["fg"]) = 2
    /\ Len(_load_history(fs).list) = 4
    /\ SubSeq(_load_history(fs).list, 1, 2) = InitialHistory.list

\* C28: every record save_to_history appends has an id that differs from the
\* id of every record already in the history and of every other record of
\* the same call, after any sequence of refresh cycles: the ids of the
\* history file are pairwise distinct.
C28_DistinctIds ==
    \A i, j \in 1..Len(_load_history(fs).list) :
        i # j => _load_history(fs).list[i].id # _load_history(fs).list[j].id

\* C29: after clear_cache, load_current_rates gives the empty snapshot,
\* is_cache_fresh is false and get_rate(a, b) is None for a # b; after
\* clear_history, load_history() is empty.  Each clear leaves the other file
\* as it was, and does nothing, without error, when its file is absent.
C29_ClearEffects ==
    [][ /\ (call.status = "none" /\ call'.op = "clear_cache") =>
              /\ call'.status = "returned"
              /\ ~load_current_rates_raises(fs')
              /\ load_current_rates(fs') = EmptySnapshot
              /\ ~is_cache_fresh_raises(fs')
              /\ ~is_cache_fresh(fs', now')
              /\ \A a, b \in RegistryCodes :
                    a # b => get_rate(fs', a, b) = None
              /\ fs'[HISTORY_FILE] = fs[HISTORY_FILE]
              /\ ~fs[RATES_FILE].exists => fs' = fs
        /\ (call.status = "none" /\ call'.op = "clear_history") =>
              /\ call'.status = "returned"
              /\ load_history(fs', NoLimit, "") = << >>
              /\ fs'[RATES_FILE] = fs[RATES_FILE]
              /\ ~fs[HISTORY_FILE].exists => fs' = fs ]_vars

\* clear_cache removed the snapshot of an earlier run and left its history
C29_Witness ==
    /\ call.op = "clear_cache"
    /\ ncycles = 0
    /\ rates_writer = "RatesStorage"
    /\ ~fs[RATES_FILE].exists
    /\ _load_history(fs) = InitialHistory

-----------------------------------------------------------------------------
(* HTTP requests *)

\* anything but a 200 response
Rejected(response) == response.code # 200

\* C30: _make_request ends after at most REQUEST_RETRIES attempts: a 429
\* response is retried after the advertised Retry-After (60 s by default)
\* while attempts remain; when the last attempt is rejected too the call
\* raises ApiRequestError; it returns only the body of a 200 response.
C30_BoundedRetries ==
    /\ req.attempt <= REQUEST_RETRIES
    /\ req.attempt = Len(req.responses)
    /\ \A i \in 1..Len(req.responses) :
          (req.responses[i].code = 429 /\ i < REQUEST_RETRIES) =>
              \/ Len(req.responses) > i
              \/ /\ req.status = "running"
                 /\ ~RetryAfterRaises(req.responses[i]) =>
                        req.slept >= RetryAfter(req.responses[i])
    /\ req.status = "raised" => req.error = "ApiRequestError"
    /\ (req.attempt = REQUEST_RETRIES /\ Rejected(req.responses[REQUEST_RETRIES])) =>
          req.status = "raised" /\ req.error = "ApiRequestError"
    /\ req.status = "returned" =>
          req.body = "json" /\ req.responses[Len(req.responses)].code = 200

\* C31: a 401 or 403 response makes _make_request raise ApiRequestError on
\* that attempt, with no further request; a timeout or a connection error is
\* followed by another attempt while attempts remain, and the last of
\* REQUEST_RETRIES such failures raises ApiRequestError.
C31_PermanentErrorNotRetried ==
    \A i \in 1..Len(req.responses) :
        /\ req.responses[i].code \in {401, 403} =>
              /\ i = Len(req.responses)
              /\ req.status = "raised"
              /\ req.error = "ApiRequestError"
        /\ req.responses[i].raises \in {"Timeout", "ConnectionError"} =>
              IF i < REQUEST_RETRIES
              THEN Len(req.responses) > i \/ req.status = "running"
              ELSE req.status = "raised" /\ req.error = "ApiRequestError"

\* a timeout was retried, and the 403 that answered the second request ended
\* the call
C31_Witness ==
    /\ Len(req.responses) = 2
    /\ req.responses[1].raises = "Timeout"
    /\ req.responses[2].code = 403
    /\ req.status = "raised"
    /\ req.slept = RETRY_DELAY

-----------------------------------------------------------------------------
(* The scheduler *)

\* C32: after stop() the background loop observes the stop signal and
\* terminates: the first time a thread tests self.running after a stop() that
\* was called while it was alive, it leaves the loop and starts no further
\* update.
C32_StopEndsLoop ==
    [][ \A l \in Loops :
            (sched.told[l] /\ sched.loops[l] = "check" /\ sched'.loops[l] # "check") =>
                sched'.loops[l] = "stopped" ]_vars

\* C33: while the scheduler is running and its thread is past registering,
\* a job of the current interval is scheduled, after change_interval too.
C33_JobStaysScheduled ==
    (sched.running /\ sched.thread # 0 /\ Registered(sched.thread)) =>
        \E i \in 1..Len(sched.jobs) : sched.jobs[i].interval = sched.interval

\* C40: at most one thread is inside _run_scheduler and at most one job is
\* registered, whatever start() and stop() calls were made.
C40_OneLoopOneJob ==
    /\ Cardinality({ l \in Loops : Alive(l) }) <= 1
    /\ Len(sched.jobs) <= 1

-----------------------------------------------------------------------------
(* C34: every rate stored in the snapshot and in the history is strictly
   positive; a rate of zero or below that a source reports is never stored
   by a refresh cycle *)

StoredRates(files) ==
    { GetPairs(load_current_rates(files))[k].rate :
          k \in DOMAIN GetPairs(load_current_rates(files)) }
    \cup { _load_history(files).list[i].rate : i \in DOMAIN _load_history(files).list }

C34_StoredRatesPositive ==
    \A rate \in StoredRates(fs) : rate[1] > 0

-----------------------------------------------------------------------------
(* C35: a second is_cache_fresh() right after a first, with no refresh and
   no passing of time between them, returns what the first returned; and a
   call of load_current_rates, is_cache_fresh, get_rate or load_history
   leaves the snapshot file and the history file as they were *)

ReadOnlyQueries == {"load_current_rates", "is_cache_fresh", "get_rate", "load_history"}

-----------------------------------------------------------------------------
(* C36: after any buy_currency and sell_currency calls every stored wallet
   balance is >= 0; a sell of more than the balance raises
   InsufficientFundsError, a sell without a wallet WalletNotFoundError, an
   amount <= 0 InvalidAmountError, an unknown currency CurrencyNotFoundError,
   and these leave the stored portfolio as it was; a buy that succeeds raises
   the balance by exactly the amount, a sell that succeeds lowers it by
   exactly the amount *)

BalanceOf(held, currency_code) ==
    IF currency_code \in DOMAIN held THEN held[currency_code] ELSE 0

TradeErrors ==
    {"InsufficientFundsError", "WalletNotFoundError", "InvalidAmountError",
     "CurrencyNotFoundError"}

C36_WalletBalances ==
    [][ (trade.status = "none" /\ trade'.status # "none") =>
          /\ \A c \in DOMAIN wallets' : wallets'[c] # NaN /\ wallets'[c] >= 0
          /\ (trade'.currency \notin RegistryCodes) =>
                 trade'.status = "CurrencyNotFoundError"
          /\ (trade'.currency \in RegistryCodes /\ trade'.amount # NaN
                /\ trade'.amount <= 0) =>
                 trade'.status = "InvalidAmountError"
          /\ (trade'.op = "sell" /\ trade'.currency \in RegistryCodes
                /\ trade'.amount # NaN /\ trade'.amount > 0) =>
                 /\ (trade'.currency \notin DOMAIN wallets) =>
                        trade'.status = "WalletNotFoundError"
                 /\ (trade'.currency \in DOMAIN wallets
                       /\ FloatGreater(trade'.amount, BalanceOf(wallets, trade'.currency))) =>
                        trade'.status = "InsufficientFundsError"
          /\ (trade'.status \in TradeErrors) => wallets' = wallets
          /\ (trade'.status = "ok" /\ trade'.op = "buy") =>
                 /\ trade'.amount # NaN
                 /\ BalanceOf(wallets', trade'.currency)
                       = BalanceOf(wallets, trade'.currency) + trade'.amount
          /\ (trade'.status = "ok" /\ trade'.op = "sell") =>
                 /\ trade'.amount # NaN
                 /\ BalanceOf(wallets', trade'.currency)
                       = BalanceOf(wallets, trade'.currency) - trade'.amount ]_vars

-----------------------------------------------------------------------------
(* C37: after any register calls no two stored users share a username or a
   user_id; a register with a taken username or with a password shorter than
   4 characters raises ValueError and leaves the stored users and portfolios
   as they were; a register that succeeds stores exactly one new user and one
   empty portfolio for it *)

DistinctUsers(users) ==
    \A i, j \in 1..Len(users) :
       i # j => users[i].username # users[j].username /\ users[i].user_id # users[j].user_id

-----------------------------------------------------------------------------
(* C39: when two threads each do a save_portfolio (for two user ids) or a
   save_user (for two users) at the same time, both updates are in the file
   once both calls have returned: no update is lost *)

UpdatePresent(t) ==
    IF db.th[t].op = "save_portfolio"
    THEN /\ db.th[t].key \in DOMAIN db.portfolios
         /\ db.portfolios[db.th[t].key] = db.th[t].portfolio_data
    ELSE \E i \in 1..Len(db.users) : db.users[i] = db.th[t].user_data

C39_NoLostUpdate ==
    (\A t \in DbThreads : db.th[t].pc = "done") => \A t \in DbThreads : UpdatePresent(t)

-----------------------------------------------------------------------------
(* C38: a function wrapped by retry_on_failure(max_retries = n) is called at
   most n times; its first success is returned with no further call; only
   ApiRequestError, ConnectionError and TimeoutError are retried, any other
   exception propagates the first time it is raised; after n retryable
   failures the last exception is re-raised; and the call always ends *)

RetriedErrors == {"ApiRequestError", "ConnectionError", "TimeoutError"}

C38_RetryBounded ==
    /\ [](/\ Len(retry.calls) <= retry.max_retries
          /\ \A i \in 1..(Len(retry.calls) - 1) : retry.calls[i] \in RetriedErrors
          /\ (retry.status = "loop") =>
                 \A i \in 1..Len(retry.calls) : retry.calls[i] \in RetriedErrors
          /\ (retry.status = "returned") => retry.calls[Len(retry.calls)] = "ok"
          /\ (retry.status = "raised" /\ retry.max_retries > 0) =>
                 /\ retry.error = retry.calls[Len(retry.calls)]
                 /\ retry.error \in RetriedErrors => Len(retry.calls) = retry.max_retries)
    /\ ((retry.status = "loop") ~> (retry.status \in {"returned", "raised"}))

C38_Witness ==
    /\ retry.status = "raised"
    /\ retry.max_retries = MaxRetries
    /\ Len(retry.calls) = MaxRetries
    /\ retry.calls[1] = "ApiRequestError"
    /\ retry.error = "TimeoutError"
    /\ retry.slept = MaxRetries - 1

=============================================================================
